---------------------------- MODULE Spec2Model ----------------------------
(***************************************************************************)
(* Answer segmentation (extractQaPairs) and heuristic grading              *)
(* (gradeSubmissionHeuristic) of the school grading API.                   *)
(*                                                                         *)
(* A text is a sequence of one-character strings, so that trimming,        *)
(* lower-casing, tokenizing and regular-expression matching are computed   *)
(* character by character as the TypeScript does.  A number with a         *)
(* fractional part (marks, confidence) is held in hundredths.              *)
(***************************************************************************)
EXTENDS Integers, Sequences, FiniteSets, TLC

VARIABLES
    modelQa,              \* params.modelQa: sequence of QaPair
    studentQa,            \* params.studentQa: sequence of QaPair
    maxMarksPerQuestion,  \* params.maxMarksPerQuestion
    fpLow,                \* question ids whose half-mark rounding fell below an exact midpoint
    evaluation,           \* the Evaluation returned by gradeSubmissionHeuristic
    simCalls,             \* question ids for which the call consulted cosineSimilarity
    gradePc,              \* "input" while the arguments are assembled, "done" after the call
    rawText,              \* the argument of extractQaPairs
    pieceCount,           \* number of pieces rawText was assembled from
    qaPairs,              \* the QaPair[] returned by extractQaPairs
    qaPc,                 \* "input" while rawText is assembled, "done" after the call
    simA,                 \* first argument of cosineSimilarity
    simB,                 \* second argument of cosineSimilarity
    simResult,            \* the similarity returned
    simPc,                \* "input" while the two texts are assembled, "done" after the call
    scoreText,            \* params.text of extractScoreFromText
    scorePieces,          \* number of pieces scoreText was assembled from
    scoreExpected,        \* params.expectedOutOf
    scoreLabel,           \* params.labelHint, <<>> when absent
    scoreResult,          \* the ExtractedScore returned
    scoreTried,           \* the strategies the call ran, in order
    scorePc,              \* "input" while the text is assembled, "done" after the call
    callRaw,              \* per activation of extractQaPairs: its argument rawText
    callText,             \* per activation: its local text (line 52)
    callRe,               \* per RegExp object created at line 58: its lastIndex
    callMarkers,          \* per activation: its local markers (line 55)
    callResult,           \* per activation: the value it returned
    callPc,               \* per activation: "idle", "scan" (in the loop of lines 59-66) or "done"
    returned,             \* the pairs of argument and result of the calls that have returned
    kwModel,              \* first argument of missingKeywords
    kwStudent,            \* second argument of missingKeywords
    kwLimit,              \* third argument of missingKeywords
    kwMissing,            \* the list returned by missingKeywords
    kwPc,                 \* "input" before the call of missingKeywords, "done" after it
    areaLists,            \* the weakAreas of the questions, one list per question
    weakAreasAgg,         \* the list returned by aggregateWeakAreas (line 86)
    areaPc,               \* "input" while areaLists is assembled, "done" after the call
    modelText,            \* the model sheet of POST /evaluate
    studentText,          \* the student sheet of POST /evaluate
    graderProvider,       \* process.env.GRADER_PROVIDER, <<>> when unset
    openaiRequests,       \* the models asked by client.responses.create, in order
    heuristicRuns,        \* number of calls of gradeSubmissionHeuristic
    caughtErr,            \* the error caught at line 26 of grading.ts, NoError if none
    submitPc              \* position of the request within the route and gradeSubmission

vars == <<modelQa, studentQa, maxMarksPerQuestion, fpLow, evaluation, simCalls, gradePc,
          rawText, pieceCount, qaPairs, qaPc, simA, simB, simResult, simPc,
          scoreText, scorePieces, scoreExpected, scoreLabel, scoreResult, scoreTried, scorePc,
          callRaw, callText, callRe, callMarkers, callResult, callPc, returned,
          kwModel, kwStudent, kwLimit, kwMissing, kwPc, areaLists, weakAreasAgg, areaPc,
          modelText, studentText, graderProvider, openaiRequests, heuristicRuns, caughtErr,
          submitPc>>

gradeVars == <<modelQa, studentQa, maxMarksPerQuestion, fpLow, evaluation, simCalls, gradePc>>
simVars == <<simA, simB, simResult, simPc>>
qaVars == <<rawText, pieceCount, qaPairs, qaPc>>
callVars == <<callRaw, callText, callRe, callMarkers, callResult, callPc, returned>>
keywordVars == <<kwModel, kwStudent, kwLimit, kwMissing, kwPc>>
areaVars == <<areaLists, weakAreasAgg, areaPc>>
submitVars == <<modelText, studentText, graderProvider, openaiRequests, heuristicRuns, caughtErr,
                submitPc>>
scoreVars == <<scoreText, scorePieces, scoreExpected, scoreLabel, scoreResult, scoreTried, scorePc>>

-----------------------------------------------------------------------------
(* Bounds of the explored inputs.                                          *)

MaxSpans == 3              \* spans handed to the grader, both sides together
MaxMarksBound == 2         \* maxMarksPerQuestion ranges over 1..MaxMarksBound
MaxPieces == 3             \* pieces concatenated into one raw text
MaxWords == 3              \* words in each text handed to cosineSimilarity
MaxScorePieces == 3        \* pieces concatenated into one text of extractScoreFromText
MaxPairPieces == 3         \* score phrases concatenated into one text of extractScoreFromText
MaxAreaLists == 3          \* per-question weakAreas lists handed to aggregateWeakAreas
MaxLimit == 3              \* the limit of missingKeywords ranges over 0..MaxLimit and 6

-----------------------------------------------------------------------------
(* Characters and strings.                                                 *)

Min(S) == CHOOSE x \in S : \A y \in S : x <= y
Max(S) == CHOOSE x \in S : \A y \in S : x >= y

UpperCase == <<"A","B","C","D","E","F","G","H","I","J","K","L","M","N","O","P","Q","R","S","T","U","V","W","X","Y","Z">>
LowerCase == <<"a","b","c","d","e","f","g","h","i","j","k","l","m","n","o","p","q","r","s","t","u","v","w","x","y","z">>
Digit == <<"0","1","2","3","4","5","6","7","8","9">>

Range(s) == {s[i] : i \in 1..Len(s)}

UpperCaseLetters == Range(UpperCase)
LowerCaseLetters == Range(LowerCase)
Digits == Range(Digit)

\* \s of a JavaScript regular expression and the characters String.trim removes
Whitespace == {" ", "\t", "\n", "\r"}

\* String.prototype.toLowerCase, one character
LowerOf == [c \in UpperCaseLetters |-> LowerCase[CHOOSE i \in 1..Len(UpperCase) : UpperCase[i] = c]]

toLowerCaseChar(c) == IF c \in UpperCaseLetters THEN LowerOf[c] ELSE c

toLowerCase(s) == [i \in 1..Len(s) |-> toLowerCaseChar(s[i])]

\* the offset after the maximal run of characters of S that starts at offset o
runEnd(text, o, S) ==
    IF \A j \in o..(Len(text) - 1) : text[j + 1] \in S THEN Len(text)
    ELSE CHOOSE j \in o..(Len(text) - 1) :
            text[j + 1] \notin S /\ \A k \in o..(j - 1) : text[k + 1] \in S

\* the offset after the maximal run of characters outside S that starts at offset o
runEndNot(text, o, S) ==
    IF \A j \in o..(Len(text) - 1) : text[j + 1] \notin S THEN Len(text)
    ELSE CHOOSE j \in o..(Len(text) - 1) :
            text[j + 1] \in S /\ \A k \in o..(j - 1) : text[k + 1] \notin S

\* the length of the maximal run of whitespace that ends the text
trailingRun(s) ==
    IF \A j \in 1..Len(s) : s[j] \in Whitespace THEN Len(s)
    ELSE CHOOSE n \in 0..(Len(s) - 1) :
            s[Len(s) - n] \notin Whitespace
            /\ \A k \in 0..(n - 1) : s[Len(s) - k] \in Whitespace

\* String.prototype.trim
trim(s) == SubSeq(s, runEnd(s, 0, Whitespace) + 1, Len(s) - trailingRun(s))

\* String.prototype.slice(start, end) with 0-based, in-range offsets
slice(s, start, end) == SubSeq(s, start + 1, end)

DigitValue == [c \in Digits |-> CHOOSE d \in 0..9 : Digit[d + 1] = c]

\* Number(id) of a string of decimal digits
RECURSIVE Number(_)
Number(s) ==
    IF s = <<>> THEN 0
    ELSE 10 * Number(SubSeq(s, 1, Len(s) - 1))
         + DigitValue[s[Len(s)]]

\* a whole number n as hundredths
Fixed(n) == n * 100

\* Math.min(max, Math.max(min, n))
clamp(n, min, max) ==
    LET lower == IF n > min THEN n ELSE min
    IN  IF lower < max THEN lower ELSE max

-----------------------------------------------------------------------------
(* gradingHeuristic.ts: tokenizer and term frequencies.                    *)

STOP_WORDS == {
    <<"a">>, <<"a","n">>, <<"t","h","e">>, <<"a","n","d">>, <<"o","r">>, <<"b","u","t">>,
    <<"i","f">>, <<"t","h","e","n">>, <<"e","l","s","e">>, <<"w","h","e","n">>, <<"w","h","i","l","e">>,
    <<"o","f">>, <<"t","o">>, <<"i","n">>, <<"o","n">>, <<"a","t">>, <<"b","y">>,
    <<"f","o","r">>, <<"f","r","o","m">>, <<"w","i","t","h">>, <<"i","s">>, <<"a","r","e">>, <<"w","a","s">>,
    <<"w","e","r","e">>, <<"b","e">>, <<"b","e","e","n">>, <<"b","e","i","n","g">>, <<"a","s">>, <<"i","t">>,
    <<"t","h","i","s">>, <<"t","h","a","t">>, <<"t","h","e","s","e">>, <<"t","h","o","s","e">>, <<"w","e">>,
    <<"y","o","u">>, <<"t","h","e","y">>, <<"i">>, <<"h","e">>, <<"s","h","e">>, <<"n","o","t">>,
    <<"n","o">>, <<"y","e","s">>, <<"d","o">>, <<"d","o","e","s">>, <<"d","i","d">>, <<"d","o","n","e">>,
    <<"c","a","n">>, <<"c","o","u","l","d">>, <<"s","h","o","u","l","d">>, <<"w","o","u","l","d">>, <<"m","a","y">>,
    <<"m","i","g","h","t">>, <<"m","u","s","t">>, <<"w","i","l","l">>, <<"s","h","a","l","l">>, <<"t","h","e","r","e">>,
    <<"h","e","r","e">>, <<"t","h","a","n">>, <<"s","o">>, <<"s","u","c","h">>, <<"a","l","s","o">>,
    <<"i","n","t","o">>, <<"o","v","e","r">>, <<"u","n","d","e","r">>, <<"b","e","t","w","e","e","n">>, <<"w","i","t","h","i","n">>,
    <<"w","i","t","h","o","u","t">>
}

\* the characters that /[^a-z0-9\s]/ does not match
KeptCharacters == LowerCaseLetters \cup Digits \cup Whitespace

\* text.replace(/[^a-z0-9\s]/g, " ")
replaceNonAlnum(s) ==
    [i \in 1..Len(s) |-> IF s[i] \in KeptCharacters THEN s[i] ELSE " "]

\* String.prototype.split(/\s+/): the pieces between the maximal whitespace
\* runs, the empty pieces before a leading and after a trailing run included
RECURSIVE splitFrom(_, _, _)
splitFrom(s, o, acc) ==
    LET e == runEndNot(s, o, Whitespace)
        piece == SubSeq(s, o + 1, e)
    IN  IF e = Len(s) THEN Append(acc, piece)
        ELSE splitFrom(s, runEnd(s, e, Whitespace), Append(acc, piece))

splitWhitespace(s) == splitFrom(s, 0, <<>>)

tokenize(text) ==
    LET pieces == splitWhitespace(replaceNonAlnum(toLowerCase(text)))
        trimmed == [i \in 1..Len(pieces) |-> trim(pieces[i])]
        keep(t) == Len(t) >= 2 /\ t \notin STOP_WORDS
    IN  SelectSeq(trimmed, keep)

\* A Map<string, number> is the sequence of its entries in insertion order.
mapSet(m, k) ==
    IF \E i \in 1..Len(m) : m[i].w = k
    THEN [i \in 1..Len(m) |-> IF m[i].w = k THEN [w |-> k, n |-> m[i].n + 1] ELSE m[i]]
    ELSE Append(m, [w |-> k, n |-> 1])

RECURSIVE termFreq(_)
termFreq(tokens) ==
    IF tokens = <<>> THEN <<>>
    ELSE mapSet(termFreq(SubSeq(tokens, 1, Len(tokens) - 1)), tokens[Len(tokens)])

mapGet(m, k) ==
    IF \E i \in 1..Len(m) : m[i].w = k
    THEN m[CHOOSE i \in 1..Len(m) : m[i].w = k].n
    ELSE 0

RECURSIVE sumSeq(_)
sumSeq(s) == IF s = <<>> THEN 0 ELSE sumSeq(SubSeq(s, 1, Len(s) - 1)) + s[Len(s)]

\* entries.sort((a, b) => b[1] - a[1]): stable, descending count
RECURSIVE sortByCountDesc(_)
sortByCountDesc(entries) ==
    IF entries = <<>> THEN <<>>
    ELSE LET front == sortByCountDesc(SubSeq(entries, 1, Len(entries) - 1))
             last == entries[Len(entries)]
             k == Cardinality({i \in 1..Len(front) : front[i].n >= last.n})
         IN  SubSeq(front, 1, k) \o <<last>> \o SubSeq(front, k + 1, Len(front))

\* .slice(0, limit).map(([w]) => w)
topWords(entries, limit) ==
    LET n == IF Len(entries) < limit THEN Len(entries) ELSE limit
    IN  [i \in 1..n |-> entries[i].w]

longTokens(text) ==
    LET long(t) == Len(t) >= 5 IN SelectSeq(tokenize(text), long)

-----------------------------------------------------------------------------
(* gradingHeuristic.ts: similarity and keyword gaps.                       *)

\* cosineSimilarity with   dot += va   for the shared terms instead of va * vb
cosineSimilaritySumDot(a, b) ==
    LET ta == tokenize(a)
        tb == tokenize(b)
        fa == termFreq(ta)
        fb == termFreq(tb)
        normA == sumSeq([i \in 1..Len(fa) |-> fa[i].n * fa[i].n])
        normB == sumSeq([i \in 1..Len(fb) |-> fb[i].n * fb[i].n])
        dot == sumSeq([i \in 1..Len(fa) |-> IF mapGet(fb, fa[i].w) > 0 THEN fa[i].n ELSE 0])
    IN  IF Len(ta) = 0 \/ Len(tb) = 0 THEN [num |-> 0, den2 |-> 1]
        ELSE IF normA = 0 \/ normB = 0 THEN [num |-> 0, den2 |-> 1]
        ELSE IF dot * dot > normA * normB THEN [num |-> 1, den2 |-> 1]
        ELSE [num |-> dot, den2 |-> normA * normB]

\* cosineSimilarity with the norm of the first text in the place of both norms
cosineSimilarityFirstNorm(a, b) ==
    LET ta == tokenize(a)
        tb == tokenize(b)
        fa == termFreq(ta)
        fb == termFreq(tb)
        normA == sumSeq([i \in 1..Len(fa) |-> fa[i].n * fa[i].n])
        dot == sumSeq([i \in 1..Len(fa) |-> fa[i].n * mapGet(fb, fa[i].w)])
    IN  IF Len(ta) = 0 \/ Len(tb) = 0 THEN [num |-> 0, den2 |-> 1]
        ELSE IF normA = 0 THEN [num |-> 0, den2 |-> 1]
        ELSE IF dot * dot > normA * normA THEN [num |-> 1, den2 |-> 1]
        ELSE [num |-> dot, den2 |-> normA * normA]

\* cosineSimilarity without the two early returns: the quotient is formed
\* whatever the norms are
cosineSimilarityNoGuards(a, b) ==
    LET fa == termFreq(tokenize(a))
        fb == termFreq(tokenize(b))
        normA == sumSeq([i \in 1..Len(fa) |-> fa[i].n * fa[i].n])
        normB == sumSeq([i \in 1..Len(fb) |-> fb[i].n * fb[i].n])
        dot == sumSeq([i \in 1..Len(fa) |-> fa[i].n * mapGet(fb, fa[i].w)])
    IN  [num |-> dot, den2 |-> normA * normB]

\* The similarity is dot / (sqrt(normA) * sqrt(normB)).  It is kept exact as
\* the pair (num, den2) standing for num / sqrt(den2); 0 is (0, 1).
cosineSimilarity(a, b) ==
    LET ta == tokenize(a)
        tb == tokenize(b)
        fa == termFreq(ta)
        fb == termFreq(tb)
        normA == sumSeq([i \in 1..Len(fa) |-> fa[i].n * fa[i].n])
        normB == sumSeq([i \in 1..Len(fb) |-> fb[i].n * fb[i].n])
        dot == sumSeq([i \in 1..Len(fa) |-> fa[i].n * mapGet(fb, fa[i].w)])
    IN  IF Len(ta) = 0 \/ Len(tb) = 0 THEN [num |-> 0, den2 |-> 1]
        ELSE IF normA = 0 \/ normB = 0 THEN [num |-> 0, den2 |-> 1]
        ELSE IF dot * dot > normA * normB THEN [num |-> 1, den2 |-> 1]
        ELSE [num |-> dot, den2 |-> normA * normB]

\* extractKeyPhrases without the sort by frequency
keyPhrasesUnsorted(modelAnswer, limit) ==
    topWords(termFreq(longTokens(modelAnswer)), limit)

extractKeyPhrases(modelAnswer, limit) ==
    topWords(sortByCountDesc(termFreq(longTokens(modelAnswer))), limit)

\* missingKeywords without the sort by frequency
missingKeywordsUnsorted(modelAnswer, studentAnswer, limit) ==
    LET studentSet == Range(tokenize(studentAnswer))
        freq == termFreq(longTokens(modelAnswer))
        absent(e) == e.w \notin studentSet
    IN  topWords(SelectSeq(freq, absent), limit)

missingKeywords(modelAnswer, studentAnswer, limit) ==
    LET studentSet == Range(tokenize(studentAnswer))
        freq == termFreq(longTokens(modelAnswer))
        absent(e) == e.w \notin studentSet
    IN  topWords(sortByCountDesc(SelectSeq(freq, absent)), limit)

\* aggregateWeakAreas without the sort by count
aggregateWeakAreasUnsorted(areas) ==
    topWords(termFreq(areas), 10)

aggregateWeakAreas(areas) ==
    topWords(sortByCountDesc(termFreq(areas)), 10)

-----------------------------------------------------------------------------
(* gradingHeuristic.ts: gradeSubmissionHeuristic.                          *)

\* new Map(qa.map((q) => [q.questionId, q.text])): entries in the order of
\* the first insertion of each key, holding the value of its last insertion
RECURSIVE mapOfPairs(_)
mapOfPairs(qa) ==
    IF qa = <<>> THEN <<>>
    ELSE LET m == mapOfPairs(SubSeq(qa, 1, Len(qa) - 1))
             q == qa[Len(qa)]
         IN  IF \E i \in 1..Len(m) : m[i].questionId = q.questionId
             THEN [i \in 1..Len(m) |-> IF m[i].questionId = q.questionId THEN q ELSE m[i]]
             ELSE Append(m, q)

mapKeys(m) == [i \in 1..Len(m) |-> m[i].questionId]

mapHas(m, id) == \E i \in 1..Len(m) : m[i].questionId = id

\* the lookup with the keys compared by their numeric value
textOrEmptyByNumber(m, id) ==
    IF \E i \in 1..Len(m) : Number(m[i].questionId) = Number(id)
    THEN m[CHOOSE i \in 1..Len(m) : Number(m[i].questionId) = Number(id)].text
    ELSE <<>>

\* m.get(id) ?? ""
textOrEmpty(m, id) ==
    IF mapHas(m, id) THEN m[CHOOSE i \in 1..Len(m) : m[i].questionId = id].text ELSE <<>>

\* [...new Set(keys)]: first occurrences, in order
RECURSIVE uniqueKeys(_)
uniqueKeys(keys) ==
    IF keys = <<>> THEN <<>>
    ELSE LET front == uniqueKeys(SubSeq(keys, 1, Len(keys) - 1))
             last == keys[Len(keys)]
         IN  IF last \in Range(front) THEN front ELSE Append(front, last)

\* ids.sort((a, b) => Number(a) - Number(b)): stable, ascending numeric value
RECURSIVE sortByNumber(_)
sortByNumber(ids) ==
    IF ids = <<>> THEN <<>>
    ELSE LET front == sortByNumber(SubSeq(ids, 1, Len(ids) - 1))
             last == ids[Len(ids)]
             k == Cardinality({i \in 1..Len(front) : Number(front[i]) <= Number(last)})
         IN  SubSeq(front, 1, k) \o <<last>> \o SubSeq(front, k + 1, Len(front))

\* questionIdsOf without the numeric sort
questionIdsUnsorted(modelById, studentById) ==
    uniqueKeys(mapKeys(modelById) \o mapKeys(studentById))

questionIdsOf(modelById, studentById) ==
    sortByNumber(uniqueKeys(mapKeys(modelById) \o mapKeys(studentById)))

\* Math.round(sim * maxMarks * 2) is the largest k with k - 1/2 <= 2 * maxMarks * sim,
\* that is k = 0 or (2k - 1)^2 * den2 <= (4 * maxMarks * num)^2.
roundSteps(sim, maxMarks) ==
    Max({k \in 0..(2 * maxMarks + 1) :
            k = 0 \/ (2*k - 1) * (2*k - 1) * sim.den2
                        <= (4 * maxMarks * sim.num) * (4 * maxMarks * sim.num)})

\* 2 * maxMarks * sim lies exactly half way between two whole numbers
isMidpoint(sim, maxMarks) ==
    LET k == roundSteps(sim, maxMarks)
    IN  k >= 1 /\ (2*k - 1) * (2*k - 1) * sim.den2
                    = (4 * maxMarks * sim.num) * (4 * maxMarks * sim.num)

\* roundToHalf without the rounding to half marks: raw cut to hundredths
rawToHundredth(sim, maxMarks, low) ==
    Max({k \in 0..Fixed(maxMarks) :
            k * k * sim.den2 <= (Fixed(maxMarks) * sim.num) * (Fixed(maxMarks) * sim.num)})

\* roundToHalf with an exact midpoint rounded down
roundToHalfTiesDown(sim, maxMarks, low) ==
    LET k == roundSteps(sim, maxMarks)
    IN  IF isMidpoint(sim, maxMarks) THEN (k - 1) * 50 ELSE k * 50

\* Math.round(raw * 2) / 2, in hundredths.  The square roots and the quotient
\* are rounded to doubles, so at an exact midpoint the product can fall just
\* below it and round down (low) instead of up.
roundToHalf(sim, maxMarks, low) ==
    LET k == roundSteps(sim, maxMarks)
    IN  IF low /\ isMidpoint(sim, maxMarks) THEN (k - 1) * 50 ELSE k * 50

blankResult(id, modelAnswer, maxMarks) ==
    [questionId |-> id,
     marksAwarded |-> 0,
     maxMarks |-> Fixed(maxMarks),
     feedback |-> [text |-> "No answer detected for this question.", cites |-> <<>>],
     deductions |-> <<[reason |-> [text |-> "Blank or unreadable answer", cites |-> <<>>],
                       marks |-> Fixed(maxMarks)]>>,
     weakAreas |-> IF modelAnswer # <<>> THEN extractKeyPhrases(modelAnswer, 6) ELSE <<>>]

missingModelResult(id, maxMarks) ==
    [questionId |-> id,
     marksAwarded |-> 0,
     maxMarks |-> Fixed(maxMarks),
     feedback |-> [text |-> "Model answer for this question was not detected; cannot grade reliably.",
                   cites |-> <<>>],
     deductions |-> <<[reason |-> [text |-> "Missing model answer", cites |-> <<>>],
                       marks |-> Fixed(maxMarks)]>>,
     weakAreas |-> <<>>]

\* deductionsOf without the full-marks case
deductionsAlways(marksAwarded, maxMarks, missing) ==
    <<[reason |-> IF Len(missing) # 0
                  THEN [text |-> "Missing key points: ", cites |-> missing]
                  ELSE [text |-> "Answer differs from model key", cites |-> <<>>],
       marks |-> clamp(Fixed(maxMarks) - marksAwarded, 0, Fixed(maxMarks))]>>

\* the deduction carrying the marks awarded rather than the marks lost
deductionsOfAwarded(marksAwarded, maxMarks, missing) ==
    IF marksAwarded = Fixed(maxMarks) THEN <<>>
    ELSE <<[reason |-> IF Len(missing) # 0
                       THEN [text |-> "Missing key points: ", cites |-> missing]
                       ELSE [text |-> "Answer differs from model key", cites |-> <<>>],
            marks |-> clamp(marksAwarded, 0, Fixed(maxMarks))]>>

deductionsOf(marksAwarded, maxMarks, missing) ==
    IF marksAwarded = Fixed(maxMarks) THEN <<>>
    ELSE <<[reason |-> IF Len(missing) # 0
                       THEN [text |-> "Missing key points: ", cites |-> missing]
                       ELSE [text |-> "Answer differs from model key", cites |-> <<>>],
            marks |-> clamp(Fixed(maxMarks) - marksAwarded, 0, Fixed(maxMarks))]>>

feedbackOf(marksAwarded, maxMarks, missing) ==
    IF marksAwarded = Fixed(maxMarks)
    THEN [text |-> "Matches the model answer closely.", cites |-> <<>>]
    ELSE IF Len(missing) # 0
         THEN [text |-> "Partially correct. Improve coverage of: ", cites |-> missing]
         ELSE [text |-> "Partially correct. Add more specific points from the model answer.",
               cites |-> <<>>]

\* lines 52-80, sim being the similarity computed at line 51
comparedResult(id, sim, modelAnswer, studentAnswer, maxMarks, low) ==
    LET marksAwarded == clamp(roundToHalf(sim, maxMarks, low), 0, Fixed(maxMarks))
        missing == missingKeywords(modelAnswer, studentAnswer, 6)
    IN  [questionId |-> id,
         marksAwarded |-> marksAwarded,
         maxMarks |-> Fixed(maxMarks),
         feedback |-> feedbackOf(marksAwarded, maxMarks, missing),
         deductions |-> deductionsOf(marksAwarded, maxMarks, missing),
         weakAreas |-> missing]

\* gradeQuestion without the missing-model case
gradeQuestionNoModelCheck(id, modelById, studentById, maxMarks, low) ==
    LET modelAnswer == trim(textOrEmpty(modelById, id))
        studentAnswer == trim(textOrEmpty(studentById, id))
        sim == cosineSimilarity(modelAnswer, studentAnswer)
    IN  IF studentAnswer = <<>>
        THEN [result |-> blankResult(id, modelAnswer, maxMarks),
              scored |-> FALSE, midpoint |-> FALSE]
        ELSE [result |-> comparedResult(id, sim, modelAnswer, studentAnswer, maxMarks, low),
              scored |-> TRUE, midpoint |-> isMidpoint(sim, maxMarks)]

\* the body of questionIds.map((id) => ...): the QuestionResult it returns,
\* whether it reached the call of cosineSimilarity, and whether the similarity
\* puts 2 * maxMarks * sim on an exact midpoint
gradeQuestion(id, modelById, studentById, maxMarks, low) ==
    LET modelAnswer == trim(textOrEmpty(modelById, id))
        studentAnswer == trim(textOrEmpty(studentById, id))
        sim == cosineSimilarity(modelAnswer, studentAnswer)
    IN  IF studentAnswer = <<>>
        THEN [result |-> blankResult(id, modelAnswer, maxMarks),
              scored |-> FALSE, midpoint |-> FALSE]
        ELSE IF modelAnswer = <<>>
        THEN [result |-> missingModelResult(id, maxMarks),
              scored |-> FALSE, midpoint |-> FALSE]
        ELSE [result |-> comparedResult(id, sim, modelAnswer, studentAnswer, maxMarks, low),
              scored |-> TRUE, midpoint |-> isMidpoint(sim, maxMarks)]

RECURSIVE flatten(_)
flatten(lists) ==
    IF lists = <<>> THEN <<>>
    ELSE flatten(SubSeq(lists, 1, Len(lists) - 1)) \o lists[Len(lists)]

\* totalOf summing the wrong field
totalOfMaxMarks(questions) == sumSeq([i \in 1..Len(questions) |-> questions[i].maxMarks])

totalOf(questions) == sumSeq([i \in 1..Len(questions) |-> questions[i].marksAwarded])

maxTotalOf(questions) == sumSeq([i \in 1..Len(questions) |-> questions[i].maxMarks])

\* questionIds.map((id) => ...), each result with its scored flag; lowIds are
\* the question ids whose rounding falls below an exact midpoint
gradeQuestions(mQa, sQa, maxMarks, lowIds) ==
    LET modelById == mapOfPairs(mQa)
        studentById == mapOfPairs(sQa)
        questionIds == questionIdsOf(modelById, studentById)
    IN  [i \in 1..Len(questionIds) |->
            gradeQuestion(questionIds[i], modelById, studentById, maxMarks,
                          questionIds[i] \in lowIds)]

\* lines 83-96: the Evaluation built from the graded questions
evaluationOf(graded) ==
    LET questions == [i \in 1..Len(graded) |-> graded[i].result]
    IN  [totalMarks |-> totalOf(questions),
         maxTotalMarks |-> maxTotalOf(questions),
         overallFeedback |-> "Heuristic grading used (free, no LLM). For best accuracy and richer feedback, enable OpenAI billing or use a local LLM.",
         weakAreas |-> aggregateWeakAreas(flatten([i \in 1..Len(questions) |-> questions[i].weakAreas])),
         confidence |-> 35,
         questions |-> questions]

gradeSubmissionHeuristic(mQa, sQa, maxMarks, lowIds) ==
    evaluationOf(gradeQuestions(mQa, sQa, maxMarks, lowIds))

\* the question ids for which the call reaches cosineSimilarity
scorerCalls(graded) ==
    {graded[i].result.questionId : i \in {j \in 1..Len(graded) : graded[j].scored}}

\* the question ids whose similarity puts 2 * maxMarks * sim on an exact midpoint
midpointIds(graded) ==
    {graded[i].result.questionId : i \in {j \in 1..Len(graded) : graded[j].midpoint}}

-----------------------------------------------------------------------------
(* extractQaPairs.ts: the answer segmenter.                                *)

\* rawText.replace(/\r\n/g, "\n"): every "\r" that a "\n" follows is dropped
replaceCrLf(s) ==
    LET kept(i) == ~(s[i] = "\r" /\ i < Len(s) /\ s[i + 1] = "\n")
        at == SelectSeq([i \in 1..Len(s) |-> i], kept)
    IN  [k \in 1..Len(at) |-> s[at[k]]]

charAt(text, o) == IF o < Len(text) THEN text[o + 1] ELSE ""

Separators == {":", ".", ")", "-"}

\* One attempt of /(^|\n)\s*(?:Q(?:uestion)?\s*)?(\d{1,3})\s*[:.)-]\s*/gi at
\* offset o.  No character of the pattern after a \s* is a whitespace and none
\* after \d{1,3} is a digit, so each greedy run is taken whole or the attempt
\* fails; ^ holds at offset 0 only (no m flag).
matchAt(text, o) ==
    LET g1 == IF o = 0 THEN 0 ELSE IF charAt(text, o) = "\n" THEN 1 ELSE -1
        a == o + g1
        b == runEnd(text, a, Whitespace)
        hasQ == toLowerCaseChar(charAt(text, b)) = "q"
        hasUestion == /\ hasQ
                      /\ b + 8 <= Len(text)
                      /\ toLowerCase(slice(text, b + 1, b + 8)) = <<"u","e","s","t","i","o","n">>
        c == IF hasUestion THEN runEnd(text, b + 8, Whitespace)
             ELSE IF hasQ THEN runEnd(text, b + 1, Whitespace)
             ELSE b
        d == runEnd(text, c, Digits)
        e == runEnd(text, d, Whitespace)
        ok == /\ g1 >= 0
              /\ d - c >= 1
              /\ d - c <= 3
              /\ charAt(text, e) \in Separators
        end == runEnd(text, e + 1, Whitespace)
    IN  IF ok
        THEN [found |-> TRUE, idx |-> a, qid |-> slice(text, c, d),
              markerLen |-> (end - o) - g1, lastIndex |-> end]
        ELSE [found |-> FALSE, idx |-> 0, qid |-> <<>>, markerLen |-> 0, lastIndex |-> 0]

\* exec of a regular expression without the g flag: the search starts at
\* offset 0 whatever lastIndex is
execFromStart(text, from) ==
    LET hits == {o \in 0..Len(text) : matchAt(text, o).found}
    IN  IF hits = {} THEN [found |-> FALSE, idx |-> 0, qid |-> <<>>, markerLen |-> 0, lastIndex |-> 0]
        ELSE matchAt(text, Min(hits))

\* re.exec(text) with re.lastIndex = from: the leftmost offset at which an
\* attempt succeeds
exec(text, from) ==
    LET hits == {o \in from..Len(text) : matchAt(text, o).found}
    IN  IF hits = {} THEN [found |-> FALSE, idx |-> 0, qid |-> <<>>, markerLen |-> 0, lastIndex |-> 0]
        ELSE matchAt(text, Min(hits))

\* the for (;;) loop: scanMarkers runs exec at lastIndex = from, markersAfter
\* records the match m and goes on at its lastIndex, or leaves the loop
RECURSIVE scanMarkers(_, _)
markersAfter(text, m) ==
    IF ~m.found THEN <<>>
    ELSE <<[idx |-> m.idx, qid |-> m.qid, markerLen |-> m.markerLen]>>
         \o scanMarkers(text, m.lastIndex)

scanMarkers(text, from) == markersAfter(text, exec(text, from))

pairsOf(text, markers) ==
    [i \in 1..Len(markers) |->
        LET start == markers[i].idx + markers[i].markerLen
            end == IF i + 1 <= Len(markers) THEN markers[i + 1].idx ELSE Len(text)
        IN  [questionId |-> markers[i].qid, text |-> trim(slice(text, start, end))]]

\* dedupById keeping the first occurrence of an id
RECURSIVE dedupKeepFirst(_)
dedupKeepFirst(pairs) ==
    IF pairs = <<>> THEN <<>>
    ELSE LET front == dedupKeepFirst(SubSeq(pairs, 1, Len(pairs) - 1))
             last == pairs[Len(pairs)]
         IN  IF \E i \in 1..Len(front) : front[i].questionId = last.questionId
             THEN front ELSE Append(front, last)

\* for (const p of pairs) byId.set(p.questionId, p); [...byId.values()]
dedupById(pairs) == mapOfPairs(pairs)

\* sortPairs leaving the order of first occurrence
sortPairsNone(pairs) == pairs

\* .sort((a, b) => Number(a.questionId) - Number(b.questionId)): stable
RECURSIVE sortPairs(_)
sortPairs(pairs) ==
    IF pairs = <<>> THEN <<>>
    ELSE LET front == sortPairs(SubSeq(pairs, 1, Len(pairs) - 1))
             last == pairs[Len(pairs)]
             k == Cardinality({i \in 1..Len(front) :
                                Number(front[i].questionId) <= Number(last.questionId)})
         IN  SubSeq(front, 1, k) \o <<last>> \o SubSeq(front, k + 1, Len(front))

\* noMarkerResult treating a text without markers as empty
noMarkerEmpty(text) == <<>>

noMarkerResult(text) == <<[questionId |-> <<"1">>, text |-> text]>>

normalizeRaw(raw) == trim(replaceCrLf(raw))

\* lines 68-81: the spans of a text with the markers found in it
spansOf(text, markers) ==
    IF Len(markers) = 0 THEN noMarkerResult(text)
    ELSE sortPairs(dedupById(pairsOf(text, markers)))

\* lines 52-66: an empty text has no span, any other is scanned for markers
segment(text) == IF text = <<>> THEN <<>> ELSE spansOf(text, scanMarkers(text, 0))

extractQaPairs(raw) == segment(normalizeRaw(raw))
-----------------------------------------------------------------------------
(* extractScore.ts: the score extractor.                                   *)

\* null of `number | null`, and an absent (undefined) optional number
Null == -1
Undefined == -2

\* \w of a JavaScript regular expression
WordCharacters == LowerCaseLetters \cup UpperCaseLetters \cup Digits \cup {"_"}

\* \b at offset o: exactly one of the characters on the two sides is a \w
wordBoundary(text, o) ==
    LET before == o > 0 /\ text[o] \in WordCharacters
        after == o < Len(text) /\ text[o + 1] \in WordCharacters
    IN  before # after

Blanks == {" ", "\t"}

\* .replace(/[ \t]+/g, " "): every run of blanks becomes one space
collapseBlanks(s) ==
    LET kept(i) == s[i] \notin Blanks \/ i = 1 \/ s[i - 1] \notin Blanks
        at == SelectSeq([i \in 1..Len(s) |-> i], kept)
    IN  [k \in 1..Len(at) |-> IF s[at[k]] \in Blanks THEN " " ELSE s[at[k]]]

normalize(s) == trim(collapseBlanks(replaceCrLf(toLowerCase(s))))

NoMatch == [found |-> FALSE, index |-> 0, end |-> 0, g1 |-> <<>>, g2 |-> <<>>, raw |-> <<>>]

\* the text at offset o is the literal word
literalAt(text, o, word) ==
    /\ o + Len(word) <= Len(text)
    /\ slice(text, o, o + Len(word)) = word

\* One attempt of /\b(\d{1,3})\s*\/\s*(\d{1,3})\b/ at offset o.  A digit run
\* longer than three, or one that a \w follows, fails: taking fewer digits
\* leaves a digit where the pattern wants a non-digit or a boundary.
fractionAt(text, o) ==
    LET a == runEnd(text, o, Digits)
        b == runEnd(text, a, Whitespace)
        c == runEnd(text, b + 1, Whitespace)
        d == runEnd(text, c, Digits)
        ok == /\ wordBoundary(text, o)
              /\ a - o >= 1
              /\ a - o <= 3
              /\ charAt(text, b) = "/"
              /\ d - c >= 1
              /\ d - c <= 3
              /\ wordBoundary(text, d)
    IN  IF ok
        THEN [found |-> TRUE, index |-> o, end |-> d, g1 |-> slice(text, o, a),
              g2 |-> slice(text, c, d), raw |-> slice(text, o, d)]
        ELSE NoMatch

\* One attempt of /\b(\d{1,3})\s*(?:out\s*of)\s*(\d{1,3})\b/ at offset o
outOfAt(text, o) ==
    LET a == runEnd(text, o, Digits)
        b == runEnd(text, a, Whitespace)
        c == runEnd(text, b + 3, Whitespace)
        e == runEnd(text, c + 2, Whitespace)
        d == runEnd(text, e, Digits)
        ok == /\ wordBoundary(text, o)
              /\ a - o >= 1
              /\ a - o <= 3
              /\ literalAt(text, b, <<"o","u","t">>)
              /\ literalAt(text, c, <<"o","f">>)
              /\ d - e >= 1
              /\ d - e <= 3
              /\ wordBoundary(text, d)
    IN  IF ok
        THEN [found |-> TRUE, index |-> o, end |-> d, g1 |-> slice(text, o, a),
              g2 |-> slice(text, e, d), raw |-> slice(text, o, d)]
        ELSE NoMatch

\* One attempt of /\b(\d{1,3})\b/ at offset o
numberAt(text, o) ==
    LET a == runEnd(text, o, Digits)
        ok == /\ wordBoundary(text, o)
              /\ a - o >= 1
              /\ a - o <= 3
              /\ wordBoundary(text, a)
    IN  IF ok
        THEN [found |-> TRUE, index |-> o, end |-> a, g1 |-> slice(text, o, a),
              g2 |-> <<>>, raw |-> slice(text, o, a)]
        ELSE NoMatch

\* One attempt of new RegExp(`\\b${escapeRe(labelHint)}\\b`) at offset o:
\* escapeRe makes every character of the label match itself
labelAt(text, o, labelHint) ==
    LET ok == /\ wordBoundary(text, o)
              /\ literalAt(text, o, labelHint)
              /\ wordBoundary(text, o + Len(labelHint))
    IN  IF ok
        THEN [found |-> TRUE, index |-> o, end |-> o + Len(labelHint), g1 |-> <<>>,
              g2 |-> <<>>, raw |-> labelHint]
        ELSE NoMatch

\* the first match among the attempts at, one per offset
firstOf(at) ==
    LET hits == {o \in DOMAIN at : at[o].found}
    IN  IF hits = {} THEN NoMatch ELSE at[Min(hits)]

\* text.matchAll(re): the matches from left to right, each search starting
\* where the match before it ended.  Whether an attempt at an offset succeeds
\* does not depend on where the search started, so the attempts are made once
\* per offset; hits holds the offsets of the successful ones still ahead.
RECURSIVE matchesAmong(_, _)
matchesAmong(at, hits) ==
    IF hits = {} THEN <<>>
    ELSE LET m == at[Min(hits)]
         IN  <<m>> \o matchesAmong(at, {o \in hits : o >= m.end})

matchAll(at) == matchesAmong(at, {o \in DOMAIN at : at[o].found})

fractionMatches(text) == matchAll([o \in 0..Len(text) |-> fractionAt(text, o)])

outOfMatches(text) == matchAll([o \in 0..Len(text) |-> outOfAt(text, o)])

numberMatches(text) == matchAll([o \in 0..Len(text) |-> numberAt(text, o)])

labelMatches(text, labelHint) == matchAll([o \in 0..Len(text) |-> labelAt(text, o, labelHint)])

\* window.match(/\b(\d{1,3})\b/)
firstNumber(window) == firstOf([o \in 0..Len(window) |-> numberAt(window, o)])

\* String(n) of a whole number n >= 0
RECURSIVE String(_)
String(n) ==
    IF n < 10 THEN <<Digit[n + 1]>>
    ELSE Append(String(n \div 10), Digit[(n % 10) + 1])

\* raw.includes("/")
includesSlash(raw) == \E i \in 1..Len(raw) : raw[i] = "/"

\* keepsPair without the test obtained > outOf
keepsPairAnyObtained(obtained, outOf) == outOf > 0

\* lines 24-26 and 34-36: the pairs that are not skipped by a continue
keepsPair(obtained, outOf) ==
    /\ ~(outOf <= 0)
    /\ ~(obtained < 0 \/ obtained > outOf)

\* the loop of lines 21-28 or of lines 31-38: the candidates pushed for the
\* matches ms of one pattern
pairCandidates(ms) ==
    LET all == [i \in 1..Len(ms) |->
                    [obtained |-> Number(ms[i].g1), outOf |-> Number(ms[i].g2),
                     raw |-> ms[i].raw]]
        kept(c) == keepsPair(c.obtained, c.outOf)
    IN  SelectSeq(all, kept)

\* lines 95-98: the score of one candidate
pairScore(c, expectedOutOf) ==
    (IF c.outOf # Null THEN c.outOf ELSE 0)
    + (IF expectedOutOf # Undefined /\ c.outOf = expectedOutOf THEN 1000 ELSE 0)
    + (IF includesSlash(c.raw) THEN 5 ELSE 0)

\* sortByScore with the later of two equal scores put first
RECURSIVE sortByScoreLastOnTies(_)
sortByScoreLastOnTies(scored) ==
    IF scored = <<>> THEN <<>>
    ELSE LET front == sortByScoreLastOnTies(SubSeq(scored, 1, Len(scored) - 1))
             last == scored[Len(scored)]
             k == Cardinality({i \in 1..Len(front) : front[i].score > last.score})
         IN  SubSeq(front, 1, k) \o <<last>> \o SubSeq(front, k + 1, Len(front))

\* scored.sort((a, b) => b.score - a.score): stable, highest score first
RECURSIVE sortByScore(_)
sortByScore(scored) ==
    IF scored = <<>> THEN <<>>
    ELSE LET front == sortByScore(SubSeq(scored, 1, Len(scored) - 1))
             last == scored[Len(scored)]
             k == Cardinality({i \in 1..Len(front) : front[i].score >= last.score})
         IN  SubSeq(front, 1, k) \o <<last>> \o SubSeq(front, k + 1, Len(front))

\* pickBestPair: <<>> stands for its null, <<c>> for the candidate c
pickBestPair(candidates, expectedOutOf) ==
    IF Len(candidates) = 0 THEN <<>>
    ELSE LET scored == [i \in 1..Len(candidates) |->
                            [c |-> candidates[i],
                             score |-> pairScore(candidates[i], expectedOutOf)]]
         IN  <<sortByScore(scored)[1].c>>

\* the characters after the start of a label in which a number is looked for
WindowLen == 60

\* windowOf reaching to the end of the text
windowToEnd(text, start) == slice(text, start, Len(text))

\* line 110: text.slice(start, Math.min(text.length, start + 60))
windowOf(text, start) ==
    slice(text, start, IF Len(text) < start + WindowLen THEN Len(text) ELSE start + WindowLen)

\* the loop of lines 108-115 from the i-th label match on
RECURSIVE nearLabelFrom(_, _, _, _)
nearLabelFrom(text, ms, expectedOutOf, i) ==
    IF i > Len(ms) THEN Null
    ELSE LET nm == firstNumber(windowOf(text, ms[i].index))
             obtained == Number(nm.g1)
         IN  IF nm.found /\ obtained >= 0 /\ obtained <= expectedOutOf THEN obtained
             ELSE nearLabelFrom(text, ms, expectedOutOf, i + 1)

findNearLabelNumber(text, labelHint, expectedOutOf) ==
    nearLabelFrom(text, labelMatches(text, labelHint), expectedOutOf, 1)

\* plausibleNumbers without the filter n <= 100
plausibleNumbersUnfiltered(text) ==
    LET ms == numberMatches(text)
    IN  [i \in 1..Len(ms) |-> Number(ms[i].g1)]

\* line 69: the numbers of the text that lie in 0..100, in text order
plausibleNumbers(text) ==
    LET ms == numberMatches(text)
        nums == [i \in 1..Len(ms) |-> Number(ms[i].g1)]
        plausible(n) == n >= 0 /\ n <= 100
    IN  SelectSeq(nums, plausible)

\* expectedOutOf ?? null
orNull(expectedOutOf) == IF expectedOutOf = Undefined THEN Null ELSE expectedOutOf

\* pairResult with the confidence of an unexpected total in every case
pairResultFlatConfidence(bestPair, expectedOutOf, candidates) ==
    [obtained |-> bestPair.obtained,
     outOf |-> bestPair.outOf,
     confidence |-> 85,
     method |-> IF includesSlash(bestPair.raw) THEN "fraction" ELSE "out_of",
     candidates |-> candidates]

\* lines 41-51: the result when a pair candidate wins
pairResult(bestPair, expectedOutOf, candidates) ==
    [obtained |-> bestPair.obtained,
     outOf |-> bestPair.outOf,
     confidence |-> IF expectedOutOf # Undefined /\ expectedOutOf # 0
                       /\ bestPair.outOf = expectedOutOf
                    THEN 95 ELSE 85,
     method |-> IF includesSlash(bestPair.raw) THEN "fraction" ELSE "out_of",
     candidates |-> candidates]

\* lines 56-64: the result of the label strategy
labelResult(obtained, expectedOutOf, labelHint, candidates) ==
    [obtained |-> obtained,
     outOf |-> expectedOutOf,
     confidence |-> 65,
     method |-> "label",
     candidates |-> Append(candidates,
                           [obtained |-> obtained, outOf |-> expectedOutOf,
                            raw |-> labelHint \o <<":"," ">> \o String(obtained)])]

\* lines 70-82: the plain-number fallback and the empty result
fallbackResult(nums, expectedOutOf, candidates) ==
    IF Len(nums) > 0
    THEN [obtained |-> nums[1],
          outOf |-> orNull(expectedOutOf),
          confidence |-> 25,
          method |-> "fallback",
          candidates |-> Append(candidates,
                                [obtained |-> nums[1], outOf |-> orNull(expectedOutOf),
                                 raw |-> String(nums[1])])]
    ELSE [obtained |-> Null, outOf |-> orNull(expectedOutOf), confidence |-> 0,
          method |-> "fallback", candidates |-> candidates]

\* scoreSteps with the label strategy tried before the pairs
scoreStepsLabelFirst(raw, expectedOutOfParam, labelHintParam) ==
    LET text == normalize(raw)
        expectedOutOf == expectedOutOfParam
        labelHint == toLowerCase(IF labelHintParam = <<>> THEN <<"m","a","r","k","s">> ELSE labelHintParam)
        candidates == pairCandidates(fractionMatches(text)) \o pairCandidates(outOfMatches(text))
        bestPair == pickBestPair(candidates, expectedOutOf)
        near == IF expectedOutOf # Undefined
                THEN findNearLabelNumber(text, labelHint, expectedOutOf) ELSE Null
    IN  IF expectedOutOf # Undefined /\ near # Null
        THEN [result |-> labelResult(near, expectedOutOf, labelHint, candidates),
              tried |-> <<"label">>]
        ELSE IF bestPair # <<>>
        THEN [result |-> pairResult(bestPair[1], expectedOutOf, candidates),
              tried |-> <<"label", "pair">>]
        ELSE [result |-> fallbackResult(plausibleNumbers(text), expectedOutOf, candidates),
              tried |-> <<"label", "pair", "fallback">>]

\* extractScoreFromText step by step: its result and the strategies it ran
\* ("pair": lines 41-51, "label": lines 55-65, "fallback": lines 69-82)
scoreSteps(raw, expectedOutOfParam, labelHintParam) ==
    LET text == normalize(raw)
        expectedOutOf == expectedOutOfParam
        labelHint == toLowerCase(IF labelHintParam = <<>> THEN <<"m","a","r","k","s">> ELSE labelHintParam)
        candidates == pairCandidates(fractionMatches(text)) \o pairCandidates(outOfMatches(text))
        bestPair == pickBestPair(candidates, expectedOutOf)
        near == IF expectedOutOf # Undefined
                THEN findNearLabelNumber(text, labelHint, expectedOutOf) ELSE Null
    IN  IF bestPair # <<>>
        THEN [result |-> pairResult(bestPair[1], expectedOutOf, candidates),
              tried |-> <<"pair">>]
        ELSE IF expectedOutOf # Undefined /\ near # Null
        THEN [result |-> labelResult(near, expectedOutOf, labelHint, candidates),
              tried |-> <<"pair", "label">>]
        ELSE [result |-> fallbackResult(plausibleNumbers(text), expectedOutOf, candidates),
              tried |-> IF expectedOutOf # Undefined
                        THEN <<"pair", "label", "fallback">>
                        ELSE <<"pair", "fallback">>]

extractScoreFromText(raw, expectedOutOfParam, labelHintParam) ==
    scoreSteps(raw, expectedOutOfParam, labelHintParam).result
-----------------------------------------------------------------------------
(* The explored arguments.                                                 *)

\* question ids as the segmenter yields them: one to three decimal digits
QuestionIds == {<<"2">>, <<"0","2">>, <<"1","0">>}

\* model answers: blank, a four-token answer, a two-token answer, and one
\* with more than six long tokens, one of them repeated
ModelTexts == {
    <<" ","\n">>,
    <<"P","l","a","n","t","s"," ","a","b","s","o","r","b"," ","s","u","n","l","i","g","h","t"," ","d","a","i","l","y">>,
    <<"p","l","a","n","t","s"," ","w","a","t","e","r">>,
    <<"r","o","o","t","s"," ","s","t","e","m","s"," ","l","e","a","v","e","s"," ","f","l","o","w","e","r","s"," ","s","e","e","d","s"," ","f","r","u","i","t","s"," ","p","e","t","a","l","s"," ","p","o","l","l","e","n"," ","a"," ","p","o","l","l","e","n">>
}

\* student answers: empty, the four-token model answer in another spelling,
\* one sharing a single token with it, and one with a repeated token
StudentTexts == {
    <<>>,
    <<"p","l","a","n","t","s"," ","A","B","S","O","R","B"," ","s","u","n","l","i","g","h","t",","," ","d","a","i","l","y","!">>,
    <<"p","l","a","n","t","s"," ","n","e","e","d"," ","w","a","t","e","r"," ","s","o","i","l">>,
    <<"p","l","a","n","t","s"," ","s","o","i","l"," ","s","o","i","l"," ","n","e","e","d"," ","d","a","i","l","y"," ","r","o","o","t","s">>
}

\* fragments of raw answer-sheet text
Pieces == {
    <<"Q","1",":"," ","a","p","p","l","e">>,
    <<"\n","Q","2",":"," ","b","a","n","a","n","a">>,
    <<"\n","Q","1",":"," ","c","h","e","r","r","y">>,
    <<"\n","1","0","."," ","d">>,
    <<"\r","\n","0","1","-"," ","e">>,
    <<" ","x">>,
    <<"\n">>,
    <<"\n","q","u","e","s","t","i","o","n"," ","3"," ",":","f">>,
    <<"\n","2",".","5">>,
    <<"\n","1","2","3","4",":"," ","z">>
}

NoEvaluation ==
    [totalMarks |-> 0, maxTotalMarks |-> 0, overallFeedback |-> "", weakAreas |-> <<>>,
     confidence |-> 0, questions |-> <<>>]

-----------------------------------------------------------------------------
(* The grader: the two span lists are assembled, then graded.              *)

GradeIdle ==
    /\ modelQa = <<>>
    /\ studentQa = <<>>
    /\ fpLow = {}
    /\ evaluation = NoEvaluation
    /\ simCalls = {}
    /\ gradePc = "input"

QaIdle ==
    /\ rawText = <<>>
    /\ pieceCount = 0
    /\ qaPairs = <<>>
    /\ qaPc = "input"

SimIdle ==
    /\ simA = <<>>
    /\ simB = <<>>
    /\ simResult = [num |-> 0, den2 |-> 1]
    /\ simPc = "input"

NoScore == [obtained |-> Null, outOf |-> Null, confidence |-> 0, method |-> "fallback",
            candidates |-> <<>>]

ScoreIdle ==
    /\ scoreText = <<>>
    /\ scorePieces = 0
    /\ scoreExpected = Undefined
    /\ scoreLabel = <<>>
    /\ scoreResult = NoScore
    /\ scoreTried = <<>>
    /\ scorePc = "input"

\* the activations of extractQaPairs that may be in progress at once
Calls == {1, 2}

CallsIdle ==
    /\ callRaw = [c \in Calls |-> <<>>]
    /\ callText = [c \in Calls |-> <<>>]
    /\ callRe = [c \in Calls |-> 0]
    /\ callMarkers = [c \in Calls |-> <<>>]
    /\ callResult = [c \in Calls |-> <<>>]
    /\ callPc = [c \in Calls |-> "idle"]
    /\ returned = {}

KeywordsIdle ==
    /\ kwModel = <<>>
    /\ kwStudent = <<>>
    /\ kwLimit = 0
    /\ kwMissing = <<>>
    /\ kwPc = "input"

AreasIdle ==
    /\ areaLists = <<>>
    /\ weakAreasAgg = <<>>
    /\ areaPc = "input"

\* no error
NoError == [status |-> 0, responseStatus |-> 0, code |-> "", errorCode |-> "", type |-> "",
            errorType |-> "", message |-> <<>>]

SubmitIdle ==
    /\ modelText = <<>>
    /\ studentText = <<>>
    /\ graderProvider = <<>>
    /\ openaiRequests = <<>>
    /\ heuristicRuns = 0
    /\ caughtErr = NoError
    /\ submitPc = "idle"

Init ==
    /\ GradeIdle
    /\ maxMarksPerQuestion \in 1..MaxMarksBound
    /\ QaIdle
    /\ SimIdle
    /\ ScoreIdle
    /\ CallsIdle
    /\ KeywordsIdle
    /\ AreasIdle
    /\ SubmitIdle

\* a span list as extractQaPairs returns it: distinct ids, ascending numeric value
canAppend(qa, id) ==
    /\ \A i \in 1..Len(qa) : qa[i].questionId # id
    /\ qa # <<>> => Number(qa[Len(qa)].questionId) <= Number(id)

AddModelSpan ==
    /\ gradePc = "input"
    /\ Len(modelQa) + Len(studentQa) < MaxSpans
    /\ \E id \in QuestionIds, text \in ModelTexts :
        /\ canAppend(modelQa, id)
        /\ modelQa' = Append(modelQa, [questionId |-> id, text |-> text])
    /\ UNCHANGED <<studentQa, maxMarksPerQuestion, fpLow, evaluation, simCalls, gradePc>>
    /\ UNCHANGED <<qaVars, simVars, scoreVars, callVars, keywordVars, areaVars, submitVars>>

AddStudentSpan ==
    /\ gradePc = "input"
    /\ Len(modelQa) + Len(studentQa) < MaxSpans
    /\ \E id \in QuestionIds, text \in StudentTexts :
        /\ canAppend(studentQa, id)
        /\ studentQa' = Append(studentQa, [questionId |-> id, text |-> text])
    /\ UNCHANGED <<modelQa, maxMarksPerQuestion, fpLow, evaluation, simCalls, gradePc>>
    /\ UNCHANGED <<qaVars, simVars, scoreVars, callVars, keywordVars, areaVars, submitVars>>

Grade ==
    /\ gradePc = "input"
    /\ LET up == gradeQuestions(modelQa, studentQa, maxMarksPerQuestion, {})
       IN  \E lowIds \in SUBSET midpointIds(up) :
            LET graded == IF lowIds = {} THEN up
                          ELSE gradeQuestions(modelQa, studentQa, maxMarksPerQuestion, lowIds)
            IN  /\ fpLow' = lowIds
                /\ evaluation' = evaluationOf(graded)
                /\ simCalls' = scorerCalls(graded)
    /\ gradePc' = "done"
    /\ UNCHANGED <<modelQa, studentQa, maxMarksPerQuestion>>
    /\ UNCHANGED <<qaVars, simVars, scoreVars, callVars, keywordVars, areaVars, submitVars>>

Next == AddModelSpan \/ AddStudentSpan \/ Grade

Spec == Init /\ [][Next]_vars

-----------------------------------------------------------------------------
(* The segmenter: a raw text is assembled, then segmented.                 *)

InitQa ==
    /\ GradeIdle
    /\ maxMarksPerQuestion = 1
    /\ QaIdle
    /\ SimIdle
    /\ ScoreIdle
    /\ CallsIdle
    /\ KeywordsIdle
    /\ AreasIdle
    /\ SubmitIdle

AppendPiece ==
    /\ qaPc = "input"
    /\ pieceCount < MaxPieces
    /\ \E p \in Pieces : rawText' = rawText \o p
    /\ pieceCount' = pieceCount + 1
    /\ UNCHANGED <<qaPairs, qaPc>>
    /\ UNCHANGED <<gradeVars, simVars, scoreVars, callVars, keywordVars, areaVars, submitVars>>

Segment ==
    /\ qaPc = "input"
    /\ qaPairs' = extractQaPairs(rawText)
    /\ qaPc' = "done"
    /\ UNCHANGED <<rawText, pieceCount>>
    /\ UNCHANGED <<gradeVars, simVars, scoreVars, callVars, keywordVars, areaVars, submitVars>>

NextQa == AppendPiece \/ Segment

SpecQa == InitQa /\ [][NextQa]_vars

-----------------------------------------------------------------------------
(* The similarity scorer on its own: two texts are assembled word by word, *)
(* then compared.                                                          *)

\* a word, its capitalised spelling, another word and a stop word
Words == {<<"c","e","l","l">>, <<"C","e","l","l">>, <<"w","a","l","l">>, <<"t","h","e">>}

InitSim ==
    /\ GradeIdle
    /\ maxMarksPerQuestion = 1
    /\ QaIdle
    /\ SimIdle
    /\ ScoreIdle
    /\ CallsIdle
    /\ KeywordsIdle
    /\ AreasIdle
    /\ SubmitIdle

wordCount(s) == Cardinality({i \in 1..Len(s) : s[i] = " "})

AppendWordA ==
    /\ simPc = "input"
    /\ wordCount(simA) < MaxWords
    /\ \E w \in Words : simA' = simA \o w \o <<" ">>
    /\ UNCHANGED <<simB, simResult, simPc>>
    /\ UNCHANGED <<gradeVars, qaVars, scoreVars, callVars, keywordVars, areaVars, submitVars>>

AppendWordB ==
    /\ simPc = "input"
    /\ wordCount(simB) < MaxWords
    /\ \E w \in Words : simB' = simB \o w \o <<" ">>
    /\ UNCHANGED <<simA, simResult, simPc>>
    /\ UNCHANGED <<gradeVars, qaVars, scoreVars, callVars, keywordVars, areaVars, submitVars>>

Compare ==
    /\ simPc = "input"
    /\ simResult' = cosineSimilarity(simA, simB)
    /\ simPc' = "done"
    /\ UNCHANGED <<simA, simB>>
    /\ UNCHANGED <<gradeVars, qaVars, scoreVars, callVars, keywordVars, areaVars, submitVars>>

NextSim == AppendWordA \/ AppendWordB \/ Compare

SpecSim == InitSim /\ [][NextSim]_vars


-----------------------------------------------------------------------------
(* The score extractor: a page text is assembled, then read.               *)

\* fragments of the text of a marked page
ScorePieces == {
    <<"S","c","o","r","e","d"," ","2","3","/","3","0"," ","o","n"," ","t","h","e"," ","t","e","s","t">>,
    <<" ","4","5"," ","/"," ","3","0"," ","3","/","0"," ","1","2","3","4">>,
    <<" ","1","2"," ","O","u","t"," ","O","f"," ","2","0">>,
    <<" ","M","a","r","k","s",":">>,
    <<" ","1","7">>,
    <<" ","m","a","r","k","s"," ","2","5","0">>,
    <<" ","S","c","o","r","e",":","\t"," ","4">>,
    <<" ","s","e","e"," ","t","h","e"," ","r","e","m","a","r","k","s"," ","t","h","a","t"," ","t","h","e"," ","s","e","c","o","n","d"," ","e","x","a","m","i","n","e","r"," ","w","r","o","t","e"," ","o","n"," ","t","h","e"," ","b","a","c","k"," ","p","a","g","e">>
}

\* the optional arguments as the route passes them: expectedOutOf absent or
\* a whole number of 1..1000, labelHint absent or a word
ScoreOptions == {
    [expectedOutOf |-> Undefined, labelHint |-> <<>>],
    [expectedOutOf |-> 20, labelHint |-> <<>>],
    [expectedOutOf |-> 30, labelHint |-> <<>>],
    [expectedOutOf |-> 20, labelHint |-> <<"S","c","o","r","e">>]
}

InitScore ==
    /\ GradeIdle
    /\ maxMarksPerQuestion = 1
    /\ QaIdle
    /\ SimIdle
    /\ scoreText = <<>>
    /\ scorePieces = 0
    /\ \E o \in ScoreOptions :
        /\ scoreExpected = o.expectedOutOf
        /\ scoreLabel = o.labelHint
    /\ scoreResult = NoScore
    /\ scoreTried = <<>>
    /\ scorePc = "input"
    /\ CallsIdle
    /\ KeywordsIdle
    /\ AreasIdle
    /\ SubmitIdle

AppendScorePiece ==
    /\ scorePc = "input"
    /\ scorePieces < MaxScorePieces
    /\ \E p \in ScorePieces : scoreText' = scoreText \o p
    /\ scorePieces' = scorePieces + 1
    /\ UNCHANGED <<scoreExpected, scoreLabel, scoreResult, scoreTried, scorePc>>
    /\ UNCHANGED <<gradeVars, qaVars, simVars, callVars, keywordVars, areaVars, submitVars>>

ExtractScore ==
    /\ scorePc = "input"
    /\ LET steps == scoreSteps(scoreText, scoreExpected, scoreLabel)
       IN  /\ scoreResult' = steps.result
           /\ scoreTried' = steps.tried
    /\ scorePc' = "done"
    /\ UNCHANGED <<scoreText, scorePieces, scoreExpected, scoreLabel>>
    /\ UNCHANGED <<gradeVars, qaVars, simVars, callVars, keywordVars, areaVars, submitVars>>

NextScore == AppendScorePiece \/ ExtractScore

SpecScore == InitScore /\ [][NextScore]_vars

-----------------------------------------------------------------------------
(* Activations of extractQaPairs, one loop iteration at a time.  Each      *)
(* activation owns the text, the markers and the RegExp object it creates; *)
(* activations are started, advanced and left in any order.                *)

CallTexts == {
    <<"Q","1",":"," ","a","p","p","l","e","\n","Q","2",":"," ","b","a","n","a","n","a","\n","Q","1",":"," ","c","h","e","r","r","y">>,
    <<"\n","1","0","."," ","d","\r","\n","Q","2",":"," ","b","a","n","a","n","a">>,
    <<"Q","1",":","\n","Q","2",":"," ","b","a","n","a","n","a">>,
    <<" ","x"," ">>
}

\* the RegExp object of a module-level regular expression, shared by all calls
regexShared(c) == 1

\* the RegExp object that activation c uses: the one it created at line 58
regexOf(c) == c

InitCalls ==
    /\ GradeIdle
    /\ maxMarksPerQuestion = 1
    /\ QaIdle
    /\ SimIdle
    /\ ScoreIdle
    /\ CallsIdle
    /\ KeywordsIdle
    /\ AreasIdle
    /\ SubmitIdle

\* lines 52-58: the call is entered; an empty text returns at once
CallStart(c) ==
    /\ callPc[c] = "idle"
    /\ \E raw \in CallTexts :
        LET text == normalizeRaw(raw)
        IN  /\ callRaw' = [callRaw EXCEPT ![c] = raw]
            /\ callText' = [callText EXCEPT ![c] = text]
            /\ callMarkers' = [callMarkers EXCEPT ![c] = <<>>]
            /\ IF text = <<>>
               THEN /\ callResult' = [callResult EXCEPT ![c] = <<>>]
                    /\ callPc' = [callPc EXCEPT ![c] = "done"]
                    /\ returned' = returned \cup {[raw |-> raw, result |-> <<>>]}
                    /\ UNCHANGED callRe
               ELSE /\ callRe' = [callRe EXCEPT ![regexOf(c)] = 0]
                    /\ callPc' = [callPc EXCEPT ![c] = "scan"]
                    /\ UNCHANGED <<callResult, returned>>
    /\ UNCHANGED <<gradeVars, qaVars, simVars, scoreVars, keywordVars, areaVars, submitVars>>

\* one iteration of the loop of lines 59-66 and, when exec finds no further
\* marker, lines 68-81
ExecStep(c) ==
    /\ callPc[c] = "scan"
    /\ LET m == exec(callText[c], callRe[regexOf(c)])
           result == IF Len(callMarkers[c]) = 0 THEN noMarkerResult(callText[c])
                     ELSE sortPairs(dedupById(pairsOf(callText[c], callMarkers[c])))
       IN  IF m.found
           THEN /\ callMarkers' = [callMarkers EXCEPT ![c] =
                        Append(@, [idx |-> m.idx, qid |-> m.qid, markerLen |-> m.markerLen])]
                /\ callRe' = [callRe EXCEPT ![regexOf(c)] = m.lastIndex]
                /\ UNCHANGED <<callResult, callPc, returned>>
           ELSE /\ callRe' = [callRe EXCEPT ![regexOf(c)] = 0]
                /\ callResult' = [callResult EXCEPT ![c] = result]
                /\ callPc' = [callPc EXCEPT ![c] = "done"]
                /\ returned' = returned \cup {[raw |-> callRaw[c], result |-> result]}
                /\ UNCHANGED callMarkers
    /\ UNCHANGED <<callRaw, callText>>
    /\ UNCHANGED <<gradeVars, qaVars, simVars, scoreVars, keywordVars, areaVars, submitVars>>

\* the caller has the result; the activation and its locals are gone
CallReturn(c) ==
    /\ callPc[c] = "done"
    /\ callRaw' = [callRaw EXCEPT ![c] = <<>>]
    /\ callText' = [callText EXCEPT ![c] = <<>>]
    /\ callMarkers' = [callMarkers EXCEPT ![c] = <<>>]
    /\ callResult' = [callResult EXCEPT ![c] = <<>>]
    /\ callPc' = [callPc EXCEPT ![c] = "idle"]
    /\ UNCHANGED <<callRe, returned>>
    /\ UNCHANGED <<gradeVars, qaVars, simVars, scoreVars, keywordVars, areaVars, submitVars>>

NextCalls == \E c \in Calls : CallStart(c) \/ ExecStep(c) \/ CallReturn(c)

\* a call that has been entered runs on: the loop is synchronous code
SpecCalls == InitCalls /\ [][NextCalls]_vars /\ \A c \in Calls : WF_vars(ExecStep(c))

-----------------------------------------------------------------------------
(* The score extractor on pages that hold several score phrases.           *)

\* score phrases: fractions of equal and of different totals, "out of"
\* phrases, and a fraction over the largest three-digit total
PairPieces == {
    <<" ","3","/","3","0">>,
    <<" ","9","/","3","0">>,
    <<" ","7"," ","o","u","t"," ","o","f"," ","3","5">>,
    <<" ","2"," ","o","u","t"," ","o","f"," ","3">>,
    <<" ","5","/","9","9","9">>,
    <<" ","1","2"," ","o","u","t"," ","o","f"," ","2","0">>
}

\* expectedOutOf absent or a whole number of 1..1000 (part_000 line 143)
PairExpected == {Undefined, 3, 30}

InitPairs ==
    /\ GradeIdle
    /\ maxMarksPerQuestion = 1
    /\ QaIdle
    /\ SimIdle
    /\ scoreText = <<>>
    /\ scorePieces = 0
    /\ scoreExpected \in PairExpected
    /\ scoreLabel = <<>>
    /\ scoreResult = NoScore
    /\ scoreTried = <<>>
    /\ scorePc = "input"
    /\ CallsIdle
    /\ KeywordsIdle
    /\ AreasIdle
    /\ SubmitIdle

AppendPairPiece ==
    /\ scorePc = "input"
    /\ scorePieces < MaxPairPieces
    /\ \E p \in PairPieces : scoreText' = scoreText \o p
    /\ scorePieces' = scorePieces + 1
    /\ UNCHANGED <<scoreExpected, scoreLabel, scoreResult, scoreTried, scorePc>>
    /\ UNCHANGED <<gradeVars, qaVars, simVars, callVars, keywordVars, areaVars, submitVars>>

NextPairs == AppendPairPiece \/ ExtractScore

SpecPairs == InitPairs /\ [][NextPairs]_vars

-----------------------------------------------------------------------------
(* The similarity scorer on whole texts, some of them without any term.    *)

\* texts of stop words, one-character tokens and punctuation only, and texts
\* that hold terms beside them
EdgeTexts == {
    <<>>,
    <<" "," "," ">>,
    <<"T","h","e">>,
    <<"t","h","e"," ","o","f"," ","A","N","D">>,
    <<"x">>,
    <<"a"," ","b"," ","c"," ","7">>,
    <<"?","!">>,
    <<".",".","."," ","-"," ","(","x",")"," ","&"," ","t","h","e"," ","!">>,
    <<"c","e","l","l">>,
    <<"C","e","l","l","-","w","a","l","l","!">>,
    <<"t","h","e"," ","c","e","l","l",";"," ","a"," ","w","a","l","l","?"," ","x">>,
    <<"w","a","l","l"," ","w","a","l","l"," ","c","e","l","l"," ","4","2">>
}

InitTexts ==
    /\ GradeIdle
    /\ maxMarksPerQuestion = 1
    /\ QaIdle
    /\ simA \in EdgeTexts
    /\ simB \in EdgeTexts
    /\ simResult = [num |-> 0, den2 |-> 1]
    /\ simPc = "input"
    /\ ScoreIdle
    /\ CallsIdle
    /\ KeywordsIdle
    /\ AreasIdle
    /\ SubmitIdle

NextTexts == Compare

SpecTexts == InitTexts /\ [][NextTexts]_vars

-----------------------------------------------------------------------------
(* missingKeywords on its own.                                             *)

\* model answers: repeated long tokens, more than six long tokens, short
\* tokens and stop words beside long ones, no long token, two long tokens of
\* the same count
KeywordModels == {
    <<"p","o","l","l","e","n"," ","r","o","o","t","s"," ","p","o","l","l","e","n"," ","s","t","e","m","s"," ","r","o","o","t","s"," ","p","o","l","l","e","n">>,
    <<"r","o","o","t","s"," ","s","t","e","m","s"," ","l","e","a","v","e","s"," ","f","l","o","w","e","r","s"," ","s","e","e","d","s"," ","f","r","u","i","t","s"," ","p","e","t","a","l","s"," ","p","o","l","l","e","n"," ","a"," ","p","o","l","l","e","n">>,
    <<"S","t","e","m","s",","," ","r","o","o","t","s",";"," ","S","T","E","M","S"," ","l","e","a","f"," ","t","h","e"," ","r","o","o","t">>,
    <<"l","e","a","f"," ","r","o","o","t"," ","t","h","e"," ","a">>,
    <<"s","e","e","d","s"," ","p","e","t","a","l","s"," ","s","e","e","d","s"," ","p","e","t","a","l","s"," ","f","r","u","i","t">>
}

KeywordStudents == {
    <<>>,
    <<"p","o","l","l","e","n">>,
    <<"t","h","e"," ","r","o","o","t","s"," ","a","n","d"," ","S","t","e","m","s">>,
    <<"l","e","a","f"," ","p","e","t","a","l","s"," ","s","e","e","d","s">>,
    <<"r","o","o","t","s"," ","p","o","l","l","e","n"," ","s","t","e","m","s"," ","s","e","e","d","s"," ","p","e","t","a","l","s"," ","f","r","u","i","t"," ","l","e","a","v","e","s"," ","f","l","o","w","e","r","s"," ","f","r","u","i","t","s">>
}

\* the limits: small ones, and the 6 of line 55
KeywordLimits == (0..MaxLimit) \cup {6}

InitKeywords ==
    /\ GradeIdle
    /\ maxMarksPerQuestion = 1
    /\ QaIdle
    /\ SimIdle
    /\ ScoreIdle
    /\ CallsIdle
    /\ kwModel \in KeywordModels
    /\ kwStudent \in KeywordStudents
    /\ kwLimit \in KeywordLimits
    /\ kwMissing = <<>>
    /\ kwPc = "input"
    /\ AreasIdle
    /\ SubmitIdle

FindMissing ==
    /\ kwPc = "input"
    /\ kwMissing' = missingKeywords(kwModel, kwStudent, kwLimit)
    /\ kwPc' = "done"
    /\ UNCHANGED <<kwModel, kwStudent, kwLimit>>
    /\ UNCHANGED <<gradeVars, qaVars, simVars, scoreVars, callVars, areaVars, submitVars>>

NextKeywords == FindMissing

SpecKeywords == InitKeywords /\ [][NextKeywords]_vars

-----------------------------------------------------------------------------
(* aggregateWeakAreas on the weakAreas lists of the questions (line 86).   *)

\* weakAreas lists of single questions: up to six distinct long tokens
\* each, together more than ten distinct terms, some shared between lists
AreaLists == {
    << <<"p","o","l","l","e","n">>, <<"r","o","o","t","s">>, <<"s","t","e","m","s">>, <<"l","e","a","v","e","s">>, <<"f","l","o","w","e","r","s">>, <<"s","e","e","d","s">> >>,
    << <<"f","r","u","i","t","s">>, <<"p","e","t","a","l","s">>, <<"s","e","p","a","l">>, <<"a","n","t","h","e","r">>, <<"s","t","i","g","m","a">>, <<"o","v","a","r","y">> >>,
    << <<"o","v","a","r","y">>, <<"s","t","e","m","s">>, <<"o","v","u","l","e">> >>,
    << <<"f","r","u","i","t","s">>, <<"p","o","l","l","e","n">> >>,
    << >>
}

InitAreas ==
    /\ GradeIdle
    /\ maxMarksPerQuestion = 1
    /\ QaIdle
    /\ SimIdle
    /\ ScoreIdle
    /\ CallsIdle
    /\ KeywordsIdle
    /\ AreasIdle
    /\ SubmitIdle

\* one more question's weakAreas list
AppendAreas ==
    /\ areaPc = "input"
    /\ Len(areaLists) < MaxAreaLists
    /\ \E l \in AreaLists : areaLists' = Append(areaLists, l)
    /\ UNCHANGED <<weakAreasAgg, areaPc>>
    /\ UNCHANGED <<gradeVars, qaVars, simVars, scoreVars, callVars, keywordVars, submitVars>>

Aggregate ==
    /\ areaPc = "input"
    /\ weakAreasAgg' = aggregateWeakAreas(flatten(areaLists))
    /\ areaPc' = "done"
    /\ UNCHANGED areaLists
    /\ UNCHANGED <<gradeVars, qaVars, simVars, scoreVars, callVars, keywordVars, submitVars>>

NextAreas == AppendAreas \/ Aggregate

SpecAreas == InitAreas /\ [][NextAreas]_vars

-----------------------------------------------------------------------------
(* POST /evaluate from the two sheet texts to the call of gradeSubmission  *)
(* (part_000 lines 60-82) and gradeSubmission with the OpenAI grader       *)
(* (grading.ts lines 8-40 and 114-146).                                    *)

\* the sheets: the same answer under the ids 1 and 01, both ids on one
\* sheet, another id, no marker at all, and a text that is empty when trimmed
SheetTexts == {
    <<"1","."," ","c","e","l","l"," ","w","a","l","l">>,
    <<"0","1","."," ","c","e","l","l"," ","w","a","l","l">>,
    <<"1","."," ","c","e","l","l","\n","0","1","."," ","w","a","l","l">>,
    <<"Q","2",":"," ","m","e","m","b","r","a","n","e">>,
    <<" "," "," ">>
}

\* process.env.GRADER_PROVIDER; <<>> is the unset variable or the empty
\* string, both falsy at line 15
Providers == { <<>>, <<"h","e","u","r","i","s","t","i","c">>, <<"H","e","u","r","i","s","t","i","c">>, <<"o","p","e","n","a","i">> }

\* a || b of JavaScript on numbers: 0 and undefined are falsy
orNumber(a, b) == IF a # 0 THEN a ELSE b

\* a || b of JavaScript on strings: "" and undefined are falsy
orString(a, b) == IF a # "" THEN a ELSE b

\* Number(err?.status || err?.response?.status || 0)
statusOf(err) == orNumber(orNumber(err.status, err.responseStatus), 0)

\* String(err?.code || err?.error?.code || "")
codeOf(err) == orString(orString(err.code, err.errorCode), "")

\* String(err?.type || err?.error?.type || "")
typeOf(err) == orString(orString(err.type, err.errorType), "")

\* whether the text holds the word, letter case ignored: /word/i.test(text)
testIgnoreCase(word, text) ==
    \E i \in 1..(Len(text) - Len(word) + 1) :
        toLowerCase(SubSeq(text, i, i + Len(word) - 1)) = toLowerCase(word)

\* shouldFallback of lines 119-125
shouldFallback(err) ==
    \/ statusOf(err) = 400
    \/ statusOf(err) = 404
    \/ testIgnoreCase(<<"m","o","d","e","l">>, err.message)
    \/ testIgnoreCase(<<"n","o","t"," ","f","o","u","n","d">>, err.message)
    \/ testIgnoreCase(<<"d","o","e","s"," ","n","o","t"," ","e","x","i","s","t">>, err.message)

\* the test of line 30 with the code and the type left out
isInsufficientQuotaByStatus(err) == statusOf(err) = 429

\* the test of line 30
isInsufficientQuota(err) ==
    /\ statusOf(err) = 429
    /\ \/ codeOf(err) = "insufficient_quota"
       \/ typeOf(err) = "insufficient_quota"

ApiError(status, responseStatus, code, errorCode, type, errorType, message) ==
    [status |-> status, responseStatus |-> responseStatus, code |-> code,
     errorCode |-> errorCode, type |-> type, errorType |-> errorType, message |-> message]

\* what client.responses.create rejects with
RequestErrors == {
    ApiError(429, 0, "insufficient_quota", "", "insufficient_quota", "", <<"Y","o","u"," ","e","x","c","e","e","d","e","d"," ","y","o","u","r"," ","c","u","r","r","e","n","t"," ","q","u","o","t","a">>),
    ApiError(429, 0, "", "", "insufficient_quota", "", <<"q","u","o","t","a">>),
    ApiError(0, 429, "", "insufficient_quota", "", "", <<"q","u","o","t","a">>),
    ApiError(429, 0, "insufficient_quota", "", "", "", <<"Q","u","o","t","a"," ","o","f"," ","t","h","e"," ","m","o","d","e","l"," ","e","x","c","e","e","d","e","d">>),
    ApiError(429, 0, "rate_limit_exceeded", "insufficient_quota", "requests", "", <<"R","a","t","e"," ","l","i","m","i","t"," ","r","e","a","c","h","e","d">>),
    ApiError(404, 0, "model_not_found", "", "invalid_request_error", "", <<"T","h","e"," ","m","o","d","e","l"," ","d","o","e","s"," ","n","o","t"," ","e","x","i","s","t">>),
    ApiError(400, 0, "", "", "invalid_request_error", "", <<"B","a","d"," ","r","e","q","u","e","s","t">>),
    ApiError(0, 0, "", "", "", "", <<"R","e","s","o","u","r","c","e"," ","N","o","t"," ","F","o","u","n","d">>),
    ApiError(500, 0, "", "", "server_error", "", <<"I","n","t","e","r","n","a","l"," ","s","e","r","v","e","r"," ","e","r","r","o","r">>),
    ApiError(0, 0, "ECONNRESET", "", "", "", <<"C","o","n","n","e","c","t","i","o","n"," ","e","r","r","o","r",".">>)
}

\* new Error(message) of lines 135 and 157
PlainError(message) == ApiError(0, 0, "", "", "", "", message)

\* a question of an Evaluation written by the language model
AnsweredQuestion(id, marksAwarded, maxMarks) ==
    [questionId |-> id, marksAwarded |-> marksAwarded, maxMarks |-> maxMarks,
     feedback |-> [text |-> "Good.", cites |-> <<>>], deductions |-> <<>>, weakAreas |-> <<>>]

\* response.output_text: not JSON, JSON of another shape, or an Evaluation,
\* one with consistent totals and one with totals and confidence out of range
ResponseTexts == {
    [kind |-> "notJson"],
    [kind |-> "wrongShape"],
    [kind |-> "evaluation",
     data |-> [totalMarks |-> 100, maxTotalMarks |-> 100, overallFeedback |-> "Well done.",
               weakAreas |-> <<>>, confidence |-> 80,
               questions |-> <<AnsweredQuestion(<<"1">>, 100, 100)>>]],
    [kind |-> "evaluation",
     data |-> [totalMarks |-> 900, maxTotalMarks |-> 50, overallFeedback |-> "Well done.",
               weakAreas |-> <<>>, confidence |-> 150,
               questions |-> <<AnsweredQuestion(<<"1">>, 150, 100)>>]]
}

\* the return value of lines 139-146
normalised(data) ==
    [data EXCEPT !.totalMarks = clamp(totalOf(data.questions), 0, maxTotalOf(data.questions)),
                 !.maxTotalMarks = maxTotalOf(data.questions),
                 !.confidence = clamp(data.confidence, 0, 100)]

InitEvaluate ==
    /\ GradeIdle
    /\ maxMarksPerQuestion \in 1..MaxMarksBound
    /\ QaIdle
    /\ SimIdle
    /\ ScoreIdle
    /\ CallsIdle
    /\ KeywordsIdle
    /\ AreasIdle
    /\ modelText \in SheetTexts
    /\ studentText \in SheetTexts
    /\ graderProvider \in Providers
    /\ openaiRequests = <<>>
    /\ heuristicRuns = 0
    /\ caughtErr = NoError
    /\ submitPc = "idle"

\* part_000 lines 60-74: an empty sheet ends the request with status 400,
\* otherwise both sheets are segmented
ReadSheets ==
    /\ submitPc = "idle"
    /\ IF trim(modelText) = <<>> \/ trim(studentText) = <<>>
       THEN /\ submitPc' = "rejected"
            /\ UNCHANGED <<modelQa, studentQa>>
       ELSE LET qaOf == [sheet \in {modelText, studentText} |-> extractQaPairs(sheet)]
            IN  /\ modelQa' = qaOf[modelText]
                /\ studentQa' = qaOf[studentText]
                /\ submitPc' = "segmented"
    /\ UNCHANGED <<maxMarksPerQuestion, fpLow, evaluation, simCalls, gradePc>>
    /\ UNCHANGED <<modelText, studentText, graderProvider, openaiRequests, heuristicRuns, caughtErr>>
    /\ UNCHANGED <<qaVars, simVars, scoreVars, callVars, keywordVars, areaVars>>

\* grading.ts lines 15-24: the heuristic provider goes to the call of the
\* heuristic grader at line 17, any other enters gradeSubmissionWithOpenAI
ChooseProvider ==
    /\ submitPc = "segmented"
    /\ LET provider == toLowerCase(IF graderProvider # <<>> THEN graderProvider ELSE <<"o","p","e","n","a","i">>)
       IN  IF provider = <<"h","e","u","r","i","s","t","i","c">>
           THEN submitPc' = "heuristic"
           ELSE submitPc' = "primary"
    /\ UNCHANGED <<gradeVars, heuristicRuns>>
    /\ UNCHANGED <<modelText, studentText, graderProvider, openaiRequests, caughtErr>>
    /\ UNCHANGED <<qaVars, simVars, scoreVars, callVars, keywordVars, areaVars>>

\* lines 114-126: the request with the primary model; a rejection goes on to
\* the fallback model when shouldFallback holds and the two models differ
PrimaryRequest ==
    /\ submitPc = "primary"
    /\ openaiRequests' = Append(openaiRequests, "modelPrimary")
    /\ \/ /\ submitPc' = "response"
          /\ UNCHANGED caughtErr
       \/ \E err \in RequestErrors, sameModel \in BOOLEAN :
            IF shouldFallback(err) /\ ~sameModel
            THEN /\ submitPc' = "fallback"
                 /\ UNCHANGED caughtErr
            ELSE /\ submitPc' = "caught"
                 /\ caughtErr' = err
    /\ UNCHANGED <<modelText, studentText, graderProvider, heuristicRuns>>
    /\ UNCHANGED <<gradeVars, qaVars, simVars, scoreVars, callVars, keywordVars, areaVars>>

\* line 127: the request with the fallback model; its rejection leaves
\* gradeSubmissionWithOpenAI
FallbackRequest ==
    /\ submitPc = "fallback"
    /\ openaiRequests' = Append(openaiRequests, "modelFallback")
    /\ \/ /\ submitPc' = "response"
          /\ UNCHANGED caughtErr
       \/ \E err \in RequestErrors :
            /\ submitPc' = "caught"
            /\ caughtErr' = err
    /\ UNCHANGED <<modelText, studentText, graderProvider, heuristicRuns>>
    /\ UNCHANGED <<gradeVars, qaVars, simVars, scoreVars, callVars, keywordVars, areaVars>>

\* lines 131-146: the response text is parsed and validated, and a valid
\* Evaluation returned with its totals recomputed
ReadResponse ==
    /\ submitPc = "response"
    /\ \E text \in ResponseTexts :
        IF text.kind = "notJson"
        THEN /\ caughtErr' = PlainError(<<"F","a","i","l","e","d"," ","t","o"," ","p","a","r","s","e"," ","O","p","e","n","A","I"," ","J","S","O","N"," ","o","u","t","p","u","t">>)
             /\ submitPc' = "caught"
             /\ UNCHANGED evaluation
        ELSE IF text.kind = "wrongShape"
        THEN /\ caughtErr' = PlainError(<<"O","p","e","n","A","I"," ","r","e","s","p","o","n","s","e"," ","d","i","d"," ","n","o","t"," ","m","a","t","c","h"," ","s","c","h","e","m","a">>)
             /\ submitPc' = "caught"
             /\ UNCHANGED evaluation
        ELSE /\ evaluation' = normalised(text.data)
             /\ submitPc' = "returned"
             /\ UNCHANGED caughtErr
    /\ UNCHANGED <<modelQa, studentQa, maxMarksPerQuestion, fpLow, simCalls, gradePc>>
    /\ UNCHANGED <<modelText, studentText, graderProvider, openaiRequests, heuristicRuns>>
    /\ UNCHANGED <<qaVars, simVars, scoreVars, callVars, keywordVars, areaVars>>

\* lines 26-38: the catch of gradeSubmission: want of quota goes to the call
\* of the heuristic grader at line 32, any other error is thrown again
CatchFailure ==
    /\ submitPc = "caught"
    /\ IF isInsufficientQuota(caughtErr)
       THEN submitPc' = "heuristic"
       ELSE submitPc' = "thrown"
    /\ UNCHANGED <<gradeVars, heuristicRuns>>
    /\ UNCHANGED <<modelText, studentText, graderProvider, openaiRequests, caughtErr>>
    /\ UNCHANGED <<qaVars, simVars, scoreVars, callVars, keywordVars, areaVars>>

\* lines 17-21 and 32-36: gradeSubmissionHeuristic on the segmented sheets,
\* its value returned by gradeSubmission
RunHeuristic ==
    /\ submitPc = "heuristic"
    /\ LET up == gradeQuestions(modelQa, studentQa, maxMarksPerQuestion, {})
       IN  \E lowIds \in SUBSET midpointIds(up) :
            LET graded == IF lowIds = {} THEN up
                          ELSE gradeQuestions(modelQa, studentQa, maxMarksPerQuestion, lowIds)
            IN  /\ fpLow' = lowIds
                /\ evaluation' = evaluationOf(graded)
                /\ simCalls' = scorerCalls(graded)
    /\ gradePc' = "done"
    /\ heuristicRuns' = heuristicRuns + 1
    /\ submitPc' = "returned"
    /\ UNCHANGED <<modelQa, studentQa, maxMarksPerQuestion>>
    /\ UNCHANGED <<modelText, studentText, graderProvider, openaiRequests, caughtErr>>
    /\ UNCHANGED <<qaVars, simVars, scoreVars, callVars, keywordVars, areaVars>>

NextEvaluate ==
    \/ ReadSheets
    \/ ChooseProvider
    \/ PrimaryRequest
    \/ FallbackRequest
    \/ ReadResponse
    \/ CatchFailure
    \/ RunHeuristic

SpecEvaluate == InitEvaluate /\ [][NextEvaluate]_vars
-----------------------------------------------------------------------------
(* Properties of gradeSubmissionHeuristic, checked under Spec.             *)

\* (byId.get(id) ?? "").trim() read off an argument list with distinct ids
answerOf(qa, id) ==
    IF \E i \in 1..Len(qa) : qa[i].questionId = id
    THEN trim(qa[CHOOSE i \in 1..Len(qa) : qa[i].questionId = id].text)
    ELSE <<>>

\* C1: the questions list holds exactly one QuestionResult for every question
\* id that occurs in modelQa or studentQa and none for any other id, each with
\* maxMarks = maxMarksPerQuestion, in ascending numeric order of the id.
C1_OneResultPerQuestionId ==
    gradePc = "done" =>
        LET qs == evaluation.questions
            ids == {modelQa[i].questionId : i \in 1..Len(modelQa)}
                   \cup {studentQa[i].questionId : i \in 1..Len(studentQa)}
        IN  /\ \A id \in ids : Cardinality({i \in 1..Len(qs) : qs[i].questionId = id}) = 1
            /\ \A i \in 1..Len(qs) :
                /\ qs[i].questionId \in ids
                /\ qs[i].maxMarks = Fixed(maxMarksPerQuestion)
            /\ \A i, j \in 1..Len(qs) :
                i < j => Number(qs[i].questionId) <= Number(qs[j].questionId)

\* the key holds only question 10, the student only question 2: both are graded, 2 first
C1_Witness ==
    /\ gradePc = "done"
    /\ Len(modelQa) = 1 /\ modelQa[1].questionId = <<"1","0">>
    /\ Len(studentQa) = 1 /\ studentQa[1].questionId = <<"2">>
    /\ Len(evaluation.questions) = 2
    /\ evaluation.questions[1].questionId = <<"2">>

\* C2: every QuestionResult has 0 <= marksAwarded <= maxMarks, and twice its
\* marksAwarded is a whole number; this in the blank, the missing-model and the
\* compared case alike.
C2_MarksInRangeAndHalfSteps ==
    gradePc = "done" =>
        \A i \in 1..Len(evaluation.questions) :
            LET q == evaluation.questions[i]
            IN  /\ 0 <= q.marksAwarded
                /\ q.marksAwarded <= q.maxMarks
                /\ (2 * q.marksAwarded) % Fixed(1) = 0

\* a compared answer that earns a part of the marks
C2_Witness ==
    /\ gradePc = "done"
    /\ \E i \in 1..Len(evaluation.questions) :
        LET q == evaluation.questions[i]
        IN  /\ q.questionId \in simCalls
            /\ 0 < q.marksAwarded
            /\ q.marksAwarded < q.maxMarks

\* C3: totalMarks is the sum of marksAwarded and maxTotalMarks the sum of
\* maxMarks over the questions (the number of questions times
\* maxMarksPerQuestion); both are 0 when both span lists are empty, and
\* 0 <= totalMarks <= maxTotalMarks.
C3_TotalsAreSums ==
    gradePc = "done" =>
        LET qs == evaluation.questions
        IN  /\ evaluation.totalMarks = sumSeq([i \in 1..Len(qs) |-> qs[i].marksAwarded])
            /\ evaluation.maxTotalMarks = sumSeq([i \in 1..Len(qs) |-> qs[i].maxMarks])
            /\ evaluation.maxTotalMarks = Len(qs) * Fixed(maxMarksPerQuestion)
            /\ (modelQa = <<>> /\ studentQa = <<>>) =>
                    (evaluation.totalMarks = 0 /\ evaluation.maxTotalMarks = 0)
            /\ 0 <= evaluation.totalMarks
            /\ evaluation.totalMarks <= evaluation.maxTotalMarks

\* two questions, one of them with marks, the total short of the maximum
C3_Witness ==
    /\ gradePc = "done"
    /\ Len(evaluation.questions) = 2
    /\ 0 < evaluation.totalMarks
    /\ evaluation.totalMarks < evaluation.maxTotalMarks

\* C4: for a question whose model and student answers are both non-empty after
\* trimming, deductions is empty exactly when marksAwarded = maxMarks; otherwise
\* it holds one entry with marks = maxMarks - marksAwarded whose reason cites the
\* missing keywords when there are any and is "Answer differs from model key"
\* when there are none; weakAreas is the missing-keyword list (limit 6).
C4_DeductionMatchesMarks ==
    gradePc = "done" =>
        \A i \in 1..Len(evaluation.questions) :
            LET q == evaluation.questions[i]
                m == answerOf(modelQa, q.questionId)
                s == answerOf(studentQa, q.questionId)
                missing == missingKeywords(m, s, 6)
            IN  (m # <<>> /\ s # <<>>) =>
                    /\ (q.deductions = <<>>) <=> (q.marksAwarded = q.maxMarks)
                    /\ q.marksAwarded # q.maxMarks =>
                        /\ Len(q.deductions) = 1
                        /\ q.deductions[1].marks = q.maxMarks - q.marksAwarded
                        /\ q.deductions[1].reason =
                            IF missing # <<>>
                            THEN [text |-> "Missing key points: ", cites |-> missing]
                            ELSE [text |-> "Answer differs from model key", cites |-> <<>>]
                    /\ q.weakAreas = missing

\* a partly right answer that misses no keyword
C4_Witness ==
    /\ gradePc = "done"
    /\ \E i \in 1..Len(evaluation.questions) :
        LET q == evaluation.questions[i]
        IN  /\ q.questionId \in simCalls
            /\ 0 < q.marksAwarded
            /\ q.deductions # <<>>
            /\ q.deductions[1].reason.text = "Answer differs from model key"

\* C5: for a question whose student answer is absent or empty after trimming,
\* marksAwarded = 0, deductions is the single entry "Blank or unreadable answer"
\* with marks = maxMarks, and weakAreas is empty when the model answer is empty
\* and otherwise the up to 6 most frequent model tokens of length >= 5.
C5_BlankAnswer ==
    gradePc = "done" =>
        \A i \in 1..Len(evaluation.questions) :
            LET q == evaluation.questions[i]
                m == answerOf(modelQa, q.questionId)
                s == answerOf(studentQa, q.questionId)
                toks == longTokens(m)
                count(w) == Cardinality({k \in 1..Len(toks) : toks[k] = w})
                W == q.weakAreas
                distinct == Cardinality(Range(toks))
            IN  s = <<>> =>
                    /\ q.marksAwarded = 0
                    /\ q.deductions =
                        <<[reason |-> [text |-> "Blank or unreadable answer", cites |-> <<>>],
                           marks |-> Fixed(maxMarksPerQuestion)]>>
                    /\ m = <<>> => W = <<>>
                    /\ m # <<>> =>
                        /\ Len(W) = IF distinct < 6 THEN distinct ELSE 6
                        /\ Cardinality(Range(W)) = Len(W)
                        /\ Range(W) \subseteq Range(toks)
                        /\ \A w \in Range(W), v \in Range(toks) \ Range(W) :
                                count(v) <= count(w)
                        /\ \A j, k \in 1..Len(W) : j < k => count(W[j]) >= count(W[k])

\* a blank answer to a question whose key has more than six long tokens
C5_Witness ==
    /\ gradePc = "done"
    /\ \E i \in 1..Len(evaluation.questions) :
        LET q == evaluation.questions[i]
        IN  /\ answerOf(studentQa, q.questionId) = <<>>
            /\ Cardinality(Range(longTokens(answerOf(modelQa, q.questionId)))) > 6
            /\ Len(q.weakAreas) = 6

\* C6: for a question with a non-empty student answer and no model answer, or
\* one that is empty after trimming, marksAwarded = 0, deductions is the single
\* entry "Missing model answer" with marks = maxMarks, weakAreas is empty, and
\* cosineSimilarity is not consulted for it.
C6_MissingModelAnswer ==
    gradePc = "done" =>
        \A i \in 1..Len(evaluation.questions) :
            LET q == evaluation.questions[i]
                m == answerOf(modelQa, q.questionId)
                s == answerOf(studentQa, q.questionId)
            IN  (s # <<>> /\ m = <<>>) =>
                    /\ q.marksAwarded = 0
                    /\ q.deductions =
                        <<[reason |-> [text |-> "Missing model answer", cites |-> <<>>],
                           marks |-> Fixed(maxMarksPerQuestion)]>>
                    /\ q.weakAreas = <<>>
                    /\ q.questionId \notin simCalls

\* an answered question that the key omits, next to one the key leaves blank
C6_Witness ==
    /\ gradePc = "done"
    /\ Len(modelQa) = 1
    /\ Len(studentQa) = 2
    /\ modelQa[1].text # <<>>
    /\ \A i \in 1..2 :
        /\ answerOf(studentQa, evaluation.questions[i].questionId) # <<>>
        /\ answerOf(modelQa, evaluation.questions[i].questionId) = <<>>

-----------------------------------------------------------------------------
(* Properties of cosineSimilarity, checked under SpecSim.                  *)

\* C7: the similarity of a text with itself is 1 (the squared dot product
\* equals the product of the squared norms) when the text has at least one
\* token, and the similarity of two texts that both have tokens and share none
\* is 0.
C7_SelfIsOneDisjointIsZero ==
    simPc = "done" =>
        LET ta == Range(tokenize(simA))
            tb == Range(tokenize(simB))
        IN  /\ (simA = simB /\ ta # {}) =>
                    /\ simResult.num > 0
                    /\ simResult.num * simResult.num = simResult.den2
            /\ (ta # {} /\ tb # {} /\ ta \cap tb = {}) => simResult.num = 0

\* a text with a repeated token compared with itself
C7_Witness ==
    /\ simPc = "done"
    /\ simA = simB
    /\ Len(tokenize(simA)) = 3
    /\ Cardinality(Range(tokenize(simA))) = 2

-----------------------------------------------------------------------------
(* Properties of extractQaPairs, checked under SpecQa.                     *)

\* C8: when more than one marker carries the same question id, the result holds
\* exactly one span for that id and its text is the span of the last of these
\* markers; "Q1: apple", "Q2: banana", "Q1: cherry" on three lines give
\* 1 -> cherry, 2 -> banana.
C8_LastDuplicateWins ==
    qaPc = "done" =>
        LET text == normalizeRaw(rawText)
            ms == scanMarkers(text, 0)
            spans == pairsOf(text, ms)
        IN  /\ \A i \in 1..Len(ms) :
                LET same == {j \in 1..Len(ms) : ms[j].qid = ms[i].qid}
                    hits == {k \in 1..Len(qaPairs) : qaPairs[k].questionId = ms[i].qid}
                IN  Cardinality(same) > 1 =>
                        /\ Cardinality(hits) = 1
                        /\ \A k \in hits : qaPairs[k].text = spans[Max(same)].text
            /\ rawText = <<"Q","1",":"," ","a","p","p","l","e","\n","Q","2",":"," ","b","a","n","a","n","a","\n","Q","1",":"," ","c","h","e","r","r","y">> =>
                    qaPairs = <<[questionId |-> <<"1">>, text |-> <<"c","h","e","r","r","y">>],
                                [questionId |-> <<"2">>, text |-> <<"b","a","n","a","n","a">>]>>

\* the three lines of the example, segmented
C8_Witness ==
    /\ qaPc = "done"
    /\ rawText = <<"Q","1",":"," ","a","p","p","l","e","\n","Q","2",":"," ","b","a","n","a","n","a","\n","Q","1",":"," ","c","h","e","r","r","y">>
    /\ Len(qaPairs) = 2

\* C9: the question ids of the returned spans are pairwise distinct and in
\* ascending numeric order (2 before 10).
C9_DistinctAscendingIds ==
    qaPc = "done" =>
        \A i, j \in 1..Len(qaPairs) :
            i < j =>
                /\ qaPairs[i].questionId # qaPairs[j].questionId
                /\ Number(qaPairs[i].questionId) <= Number(qaPairs[j].questionId)

\* question 10 stands before question 2 in the text and after it in the result
C9_Witness ==
    /\ qaPc = "done"
    /\ rawText = <<"\n","1","0","."," ","d","\n","Q","2",":"," ","b","a","n","a","n","a">>
    /\ Len(qaPairs) = 2
    /\ qaPairs[1].questionId = <<"2">>
    /\ qaPairs[2].questionId = <<"1","0">>

\* C10: extractQaPairs returns the empty sequence when the raw text is empty
\* after normalising line ends and trimming, and the one span with id "1"
\* holding the whole trimmed text when the text is not empty and holds no
\* marker; neither case is an error.
C10_EmptyAndNoMarkerFallbacks ==
    qaPc = "done" =>
        LET text == normalizeRaw(rawText)
        IN  /\ text = <<>> => qaPairs = <<>>
            /\ (text # <<>> /\ scanMarkers(text, 0) = <<>>) =>
                    qaPairs = <<[questionId |-> <<"1">>, text |-> text]>>

\* a text without markers that trimming shortens
C10_Witness ==
    /\ qaPc = "done"
    /\ scanMarkers(normalizeRaw(rawText), 0) = <<>>
    /\ Len(normalizeRaw(rawText)) > 0
    /\ Len(normalizeRaw(rawText)) < Len(rawText)
    /\ Len(qaPairs) = 1


-----------------------------------------------------------------------------
(* Claims about extractScoreFromText.                                      *)

\* the fraction and "out of" matches of the normalised text, as candidates
pairMatches(text) ==
    LET ms == fractionMatches(text) \o outOfMatches(text)
    IN  [i \in 1..Len(ms) |->
            [obtained |-> Number(ms[i].g1), outOf |-> Number(ms[i].g2), raw |-> ms[i].raw]]

\* 0 < outOf and 0 <= obtained <= outOf
validPair(c) == 0 < c.outOf /\ 0 <= c.obtained /\ c.obtained <= c.outOf

validPairs(text) == SelectSeq(pairMatches(text), validPair)

\* the label the call looks for
labelOf(hint) == toLowerCase(IF hint = <<>> THEN <<"m","a","r","k","s">> ELSE hint)

\* the offsets at which the label stands as a whole word
labelOccurrences(text, label) ==
    {o \in 0..(Len(text) - Len(label)) :
        /\ slice(text, o, o + Len(label)) = label
        /\ (o = 0 \/ text[o] \notin WordCharacters)
        /\ (o + Len(label) = Len(text) \/ text[o + Len(label) + 1] \notin WordCharacters)}

\* the first one-to-three-digit number in the 60 characters from offset o on
firstNumberNear(text, o) ==
    firstNumber(slice(text, o, IF Len(text) < o + 60 THEN Len(text) ELSE o + 60))

\* the label occurrences whose first number lies in 0..expected
goodOccurrences(text, label, expected) ==
    {o \in labelOccurrences(text, label) :
        LET nm == firstNumberNear(text, o)
        IN  nm.found /\ Number(nm.g1) >= 0 /\ Number(nm.g1) <= expected}

\* C11: the strategies run in strict priority order.  A text with a valid
\* fraction or "out of" pair gives method fraction or out_of and no other
\* strategy runs; the label strategy runs only when there is no valid pair and
\* expectedOutOf was supplied; the plain-number fallback runs only when
\* neither of them produced the result; method label is never returned
\* without expectedOutOf or with a valid pair in the text.
C11_StrategiesInPriorityOrder ==
    scorePc = "done" =>
        LET text == normalize(scoreText)
            hasPair == validPairs(text) # <<>>
            ran(s) == \E i \in 1..Len(scoreTried) : scoreTried[i] = s
            labelFound == /\ scoreExpected # Undefined
                          /\ goodOccurrences(text, labelOf(scoreLabel), scoreExpected) # {}
        IN  /\ scoreTried \in {<<"pair">>, <<"pair", "label">>, <<"pair", "fallback">>,
                               <<"pair", "label", "fallback">>}
            /\ hasPair => /\ scoreResult.method \in {"fraction", "out_of"}
                          /\ scoreTried = <<"pair">>
            /\ ran("label") => ~hasPair /\ scoreExpected # Undefined
            /\ ran("fallback") => ~hasPair /\ ~labelFound
            /\ scoreResult.method = "label" => ~hasPair /\ scoreExpected # Undefined

\* the label strategy produced the result of a text that holds a fraction
\* which is not a valid pair
C11_Witness ==
    /\ scorePc = "done"
    /\ scoreResult.method = "label"
    /\ scoreTried = <<"pair", "label">>
    /\ fractionMatches(normalize(scoreText)) # <<>>

\* C12: when a pair candidate wins, obtained and outOf are the winner's,
\* method is fraction when the winner's raw text holds "/" and out_of
\* otherwise, and confidence is 0.95 when expectedOutOf was supplied and
\* equals the winner's outOf, else 0.85; "Scored 23/30 on the test" gives
\* 23 of 30 by fraction, at 0.85, or at 0.95 with expectedOutOf = 30.
C12_PairWinnerResult ==
    scorePc = "done" =>
        LET cands == validPairs(normalize(scoreText))
            score(i) == cands[i].outOf
                        + (IF scoreExpected # Undefined /\ cands[i].outOf = scoreExpected
                           THEN 1000 ELSE 0)
                        + (IF includesSlash(cands[i].raw) THEN 5 ELSE 0)
            winner == CHOOSE i \in 1..Len(cands) :
                        /\ \A j \in 1..Len(cands) : score(j) <= score(i)
                        /\ \A j \in 1..(i - 1) : score(j) < score(i)
        IN  /\ cands # <<>> =>
                /\ scoreResult.obtained = cands[winner].obtained
                /\ scoreResult.outOf = cands[winner].outOf
                /\ scoreResult.method =
                        (IF includesSlash(cands[winner].raw) THEN "fraction" ELSE "out_of")
                /\ scoreResult.confidence =
                        (IF scoreExpected # Undefined /\ scoreExpected = cands[winner].outOf
                         THEN 95 ELSE 85)
            /\ scoreText = <<"S","c","o","r","e","d"," ","2","3","/","3","0"," ","o","n"," ","t","h","e"," ","t","e","s","t">> =>
                /\ scoreResult.obtained = 23
                /\ scoreResult.outOf = 30
                /\ scoreResult.method = "fraction"
                /\ scoreResult.confidence = (IF scoreExpected = 30 THEN 95 ELSE 85)

\* the example read with expectedOutOf = 30
C12_Witness ==
    /\ scorePc = "done"
    /\ scoreText = <<"S","c","o","r","e","d"," ","2","3","/","3","0"," ","o","n"," ","t","h","e"," ","t","e","s","t">>
    /\ scoreExpected = 30
    /\ scoreResult.confidence = 95

C14_FallbackResult ==
    scorePc = "done" =>
        LET text == normalize(scoreText)
            ms == numberMatches(text)
            inRange == {i \in 1..Len(ms) : Number(ms[i].g1) >= 0 /\ Number(ms[i].g1) <= 100}
            expectedOrNull == IF scoreExpected = Undefined THEN Null ELSE scoreExpected
            labelFound == /\ scoreExpected # Undefined
                          /\ goodOccurrences(text, labelOf(scoreLabel), scoreExpected) # {}
        IN  (validPairs(text) = <<>> /\ ~labelFound) =>
                IF inRange # {}
                THEN /\ scoreResult.obtained = Number(ms[Min(inRange)].g1)
                     /\ scoreResult.outOf = expectedOrNull
                     /\ scoreResult.method = "fallback"
                     /\ scoreResult.confidence = 25
                ELSE scoreResult = [obtained |-> Null, outOf |-> expectedOrNull,
                                    confidence |-> 0, method |-> "fallback",
                                    candidates |-> <<>>]

\* a text whose only number exceeds 100, read with expectedOutOf supplied
C14_Witness ==
    /\ scorePc = "done"
    /\ scoreResult.obtained = Null
    /\ scoreResult.outOf # Null
    /\ numberMatches(normalize(scoreText)) # <<>>

\* C15: whichever strategy gave the result, candidates holds every fraction
\* and "out of" match of the text with 0 < outOf and 0 <= obtained <= outOf,
\* holds no such match that fails this filter, and holds the label-derived
\* entry when the method is label.
C15_CandidatesAudit ==
    scorePc = "done" =>
        LET all == pairMatches(normalize(scoreText))
            cands == scoreResult.candidates
            listed(c) == \E k \in 1..Len(cands) : cands[k] = c
        IN  /\ \A i \in 1..Len(all) : listed(all[i]) <=> validPair(all[i])
            /\ scoreResult.method = "label" =>
                    listed([obtained |-> scoreResult.obtained, outOf |-> scoreExpected,
                            raw |-> labelOf(scoreLabel) \o <<":"," ">>
                                    \o String(scoreResult.obtained)])

\* a text with a pair that fails the filter and two that pass it
C15_Witness ==
    /\ scorePc = "done"
    /\ scoreResult.method = "out_of"
    /\ Len(scoreResult.candidates) >= 2
    /\ \E i \in 1..Len(pairMatches(normalize(scoreText))) :
            ~validPair(pairMatches(normalize(scoreText))[i])

-----------------------------------------------------------------------------
(* Further claims about the similarity scorer and the segmenter.           *)

\* C16: cosineSimilarity is symmetric: the similarity of (a, b), whose dot
\* product is summed over the terms of a, equals the similarity of (b, a),
\* whose dot product is summed over the terms of b.
C16_SimilarityIsSymmetric ==
    simPc = "done" => simResult = cosineSimilarity(simB, simA)

\* two texts with a shared term, different term counts and different norms
C16_Witness ==
    /\ simPc = "done"
    /\ simResult.num > 0
    /\ Len(termFreq(tokenize(simA))) = 2
    /\ Len(termFreq(tokenize(simB))) = 1
    /\ Len(tokenize(simB)) = 2

-----------------------------------------------------------------------------
(* Claims about calls of extractQaPairs that overlap or follow each other. *)

C18_ScanTerminates ==
    [][\A c \in Calls :
        (callPc[c] = "scan" /\ <<callPc[c], callMarkers[c]>>' # <<callPc[c], callMarkers[c]>>)
            => \/ /\ callPc'[c] = "scan"
                  /\ Len(callMarkers'[c]) = Len(callMarkers[c]) + 1
                  /\ callMarkers'[c][Len(callMarkers'[c])].markerLen > 0
                  /\ callRe'[regexOf(c)] > callRe[regexOf(c)]
                  /\ callRe'[regexOf(c)] <= Len(callText[c])
                  /\ Len(callMarkers'[c]) <= Len(callText[c])
               \/ /\ callPc'[c] = "done"
                  /\ callMarkers'[c] = callMarkers[c]
                  /\ Len(callResult'[c]) >= 1
                  /\ Len(callResult'[c]) <= Len(callText[c])]_vars

\* a call that went round the loop three times and then left it
C18_Witness ==
    \E c \in Calls :
        /\ callPc[c] = "done"
        /\ Len(callMarkers[c]) = 3
        /\ Len(callResult[c]) = 2

\* every attempt of the marker pattern that succeeds at the start of the text
\* or of a line, whether or not an earlier marker reaches over it
RECURSIVE markersAmong(_, _)
markersAmong(text, hits) ==
    IF hits = {} THEN <<>>
    ELSE LET m == matchAt(text, Min(hits))
         IN  <<[idx |-> m.idx, qid |-> m.qid, markerLen |-> m.markerLen]>>
             \o markersAmong(text, hits \ {Min(hits)})

lineStartMarkers(text) == markersAmong(text, {o \in 0..Len(text) : matchAt(text, o).found})

\* C19: every occurrence of the marker pattern at the start of the text or of
\* a line is a marker, and the result holds, for each marker, the trimmed text
\* from the end of that marker to the start of the next one or the end of the
\* text, also where that text is empty.
C19_EveryLineStartMarkerHasItsSpan ==
    \A h \in returned :
        LET text == normalizeRaw(h.raw)
            markers == lineStartMarkers(text)
        IN  Len(markers) > 0 => h.result = sortPairs(dedupById(pairsOf(text, markers)))

\* the marker attempt at o counts only if whitespace, or the end of the text,
\* follows its separator
spacedMatchAt(text, o) ==
    LET m == matchAt(text, o)
    IN  /\ m.found
        /\ \/ m.lastIndex = Len(text)
           \/ charAt(text, m.lastIndex - 1) \in Whitespace

\* the markers of the loop when only spaced markers count
RECURSIVE spacedMarkers(_, _)
spacedMarkers(text, from) ==
    LET hits == {o \in from..Len(text) : spacedMatchAt(text, o)}
        m == matchAt(text, Min(hits))
    IN  IF hits = {} THEN <<>>
        ELSE <<[idx |-> m.idx, qid |-> m.qid, markerLen |-> m.markerLen]>>
             \o spacedMarkers(text, m.lastIndex)

\* C20: a marker is recognised only where whitespace follows its separator: a
\* line that begins with digits, a separator and a character that is no
\* whitespace starts no span and stays in the current answer.
C20_MarkerNeedsWhitespaceAfterSeparator ==
    qaPc = "done" =>
        LET text == normalizeRaw(rawText)
            markers == spacedMarkers(text, 0)
        IN  qaPairs = IF text = <<>> THEN <<>>
                      ELSE IF Len(markers) = 0 THEN noMarkerResult(text)
                      ELSE sortPairs(dedupById(pairsOf(text, markers)))

-----------------------------------------------------------------------------
(* Claims about the choice among several score phrases.                    *)

\* the candidates in the order of their discovery: the valid fractions in
\* text order, then the valid "out of" pairs in text order
discovered(text) ==
    LET fr == fractionMatches(text)
        oo == outOfMatches(text)
        all == [i \in 1..(Len(fr) + Len(oo)) |->
                    LET m == IF i <= Len(fr) THEN fr[i] ELSE oo[i - Len(fr)]
                    IN  [obtained |-> Number(m.g1), outOf |-> Number(m.g2), raw |-> m.raw,
                         fraction |-> i <= Len(fr), index |-> m.index]]
    IN  SelectSeq(all, validPair)

\* outOf, plus 1000 for the expected total, plus 5 for a "/"
claimedScore(c, expected) ==
    c.outOf + (IF expected # Undefined /\ c.outOf = expected THEN 1000 ELSE 0)
            + (IF includesSlash(c.raw) THEN 5 ELSE 0)

\* C21: the returned pair is a candidate of the highest score, and every
\* candidate discovered before it has a strictly lower score; the fractions
\* are discovered before the "out of" pairs, each kind in text order, so of
\* two fractions of the same total the earlier one is returned.
C21_BestPairFirstOfHighestScore ==
    scorePc = "done" =>
        LET d == discovered(normalize(scoreText))
        IN  d # <<>> =>
                /\ \A i, j \in 1..Len(d) :
                        i < j => \/ d[i].fraction /\ ~d[j].fraction
                                 \/ d[i].fraction = d[j].fraction /\ d[i].index < d[j].index
                /\ \E w \in 1..Len(d) :
                        /\ scoreResult.obtained = d[w].obtained
                        /\ scoreResult.outOf = d[w].outOf
                        /\ scoreResult.method = (IF d[w].fraction THEN "fraction" ELSE "out_of")
                        /\ \A j \in 1..Len(d) :
                                claimedScore(d[j], scoreExpected) <= claimedScore(d[w], scoreExpected)
                        /\ \A j \in 1..(w - 1) :
                                claimedScore(d[j], scoreExpected) < claimedScore(d[w], scoreExpected)

\* two fractions of the same total after an "out of" pair of the same score:
\* the earlier fraction is returned
C21_Witness ==
    /\ scorePc = "done"
    /\ scoreText = <<" ","7"," ","o","u","t"," ","o","f"," ","3","5"," ","9","/","3","0"," ","3","/","3","0">>
    /\ scoreExpected = Undefined
    /\ scoreResult.obtained = 9
    /\ scoreResult.method = "fraction"

-----------------------------------------------------------------------------
(* Further claims about gradeSubmissionHeuristic, checked under Spec.      *)

\* the similarity of the two answers of question id
similarityOf(id) == cosineSimilarity(answerOf(modelQa, id), answerOf(studentQa, id))

\* how marks (in hundredths) stand to similarity * maxMarks + offset, the
\* similarity being num / sqrt(den2): -1 below, 0 equal, 1 above
comparedToRaw(marks, offset, sim, maxMarks) ==
    LET lhs == marks - offset
        rhs == Fixed(maxMarks) * sim.num
    IN  IF lhs < 0 THEN -1
        ELSE IF lhs * lhs * sim.den2 < rhs * rhs THEN -1
        ELSE IF lhs * lhs * sim.den2 = rhs * rhs THEN 0
        ELSE 1

\* the similarities of the explored model answers to the explored student answers
Similarities ==
    {cosineSimilarity(trim(mt), trim(st)) : mt \in ModelTexts, st \in StudentTexts}

\* line 53 for a similarity sim
marksFor(sim, maxMarks, low) == clamp(roundToHalf(sim, maxMarks, low), 0, Fixed(maxMarks))

\* C22: for a question with both answers present, marksAwarded is the
\* multiple of 0.5 nearest to similarity * maxMarks, the upper one at an exact
\* midpoint, within 0..maxMarks; so it is 0 exactly when similarity * maxMarks
\* < 0.25 and maxMarks exactly when similarity * maxMarks >= maxMarks - 0.25,
\* and a question of higher similarity has no fewer marks.  The similarity is
\* the double that the code computes: where fpLow holds the question, that
\* double lies just below the exact midpoint.
C22_NearestHalfMark ==
    gradePc = "done" =>
        \A i \in 1..Len(evaluation.questions) :
            evaluation.questions[i].questionId \in simCalls =>
                LET q == evaluation.questions[i]
                    M == maxMarksPerQuestion
                    sim == similarityOf(q.questionId)
                    below == q.questionId \in fpLow
                    \* similarity * maxMarks < bound
                    lessThan(bound) ==
                        LET c == comparedToRaw(bound, 0, sim, M)
                        IN  c = 1 \/ (c = 0 /\ below)
                IN  /\ q.marksAwarded \in {50 * k : k \in 0..(2 * M)}
                    /\ lessThan(q.marksAwarded + 25)
                    /\ ~lessThan(q.marksAwarded - 25)
                    /\ (q.marksAwarded = 0) <=> lessThan(25)
                    /\ (q.marksAwarded = Fixed(M)) <=> ~lessThan(Fixed(M) - 25)
                    /\ \A other \in Similarities :
                            sim.num * sim.num * other.den2 < other.num * other.num * sim.den2
                                => \A low \in BOOLEAN : q.marksAwarded <= marksFor(other, M, low)

\* a compared question at an exact midpoint that is rounded up to half a mark,
\* and an answer of higher similarity that earns more
C22_Witness ==
    /\ gradePc = "done"
    /\ \E i \in 1..Len(evaluation.questions), other \in Similarities :
        LET q == evaluation.questions[i]
            sim == similarityOf(q.questionId)
        IN  /\ q.questionId \in simCalls
            /\ q.questionId \notin fpLow
            /\ isMidpoint(sim, maxMarksPerQuestion)
            /\ q.marksAwarded = 50
            /\ sim.num * sim.num * other.den2 < other.num * other.num * sim.den2
            /\ marksFor(other, maxMarksPerQuestion, FALSE) > 50

-----------------------------------------------------------------------------
(* A further claim about cosineSimilarity, checked under SpecTexts.        *)

\* C23: the similarity num / sqrt(den2) lies in [0, 1], its divisor is never
\* zero, and it is 0 whenever one of the two texts tokenizes to no term, as a
\* text of stop words, one-character tokens or other characters only does,
\* also when the two texts are the same.
C23_SimilarityInUnitRange ==
    simPc = "done" =>
        /\ simResult.den2 > 0
        /\ 0 <= simResult.num
        /\ simResult.num * simResult.num <= simResult.den2
        /\ (tokenize(simA) = <<>> \/ tokenize(simB) = <<>>) => simResult.num = 0

\* a text of punctuation, a stop word and a one-character token, compared
\* with itself
C23_Witness ==
    /\ simPc = "done"
    /\ simA = <<".",".","."," ","-"," ","(","x",")"," ","&"," ","t","h","e"," ","!">>
    /\ simB = simA
    /\ simResult.num = 0

-----------------------------------------------------------------------------
(* A claim about missingKeywords, checked under SpecKeywords.              *)

\* how often the token w stands in the token list
occurrencesOf(w, tokens) == Cardinality({i \in 1..Len(tokens) : tokens[i] = w})

\* where the token w stands first in the token list
firstOccurrence(w, tokens) == Min({i \in 1..Len(tokens) : tokens[i] = w})

\* C24: missingKeywords returns at most limit tokens, no token twice; each
\* is a token of the model text of length >= 5 that the student text does not
\* hold as a token; they stand in descending order of their frequency in the
\* model text, tokens of equal frequency in the order of their first
\* occurrence there; and no such token of a higher frequency than a returned
\* one is left out.
C24_MissingKeywords ==
    kwPc = "done" =>
        LET mt == tokenize(kwModel)
            st == Range(tokenize(kwStudent))
            eligible == {w \in Range(mt) : Len(w) >= 5 /\ w \notin st}
            r == kwMissing
        IN  /\ Len(r) <= kwLimit
            /\ \A i, j \in 1..Len(r) : i # j => r[i] # r[j]
            /\ \A i \in 1..Len(r) : r[i] \in eligible
            /\ \A i, j \in 1..Len(r) :
                i < j => \/ occurrencesOf(r[i], mt) > occurrencesOf(r[j], mt)
                         \/ /\ occurrencesOf(r[i], mt) = occurrencesOf(r[j], mt)
                            /\ firstOccurrence(r[i], mt) < firstOccurrence(r[j], mt)
            /\ \A w \in eligible \ Range(r) :
                \A i \in 1..Len(r) : occurrencesOf(w, mt) <= occurrencesOf(r[i], mt)

\* the limit cuts the list of a model answer whose most frequent long token
\* comes last and one of whose long tokens the student has
C24_Witness ==
    /\ kwPc = "done"
    /\ kwModel = <<"r","o","o","t","s"," ","s","t","e","m","s"," ","l","e","a","v","e","s"," ","f","l","o","w","e","r","s"," ","s","e","e","d","s"," ","f","r","u","i","t","s"," ","p","e","t","a","l","s"," ","p","o","l","l","e","n"," ","a"," ","p","o","l","l","e","n">>
    /\ kwStudent = <<"t","h","e"," ","r","o","o","t","s"," ","a","n","d"," ","S","t","e","m","s">>
    /\ kwLimit = 3
    /\ kwMissing = << <<"p","o","l","l","e","n">>, <<"l","e","a","v","e","s">>, <<"f","l","o","w","e","r","s">> >>

-----------------------------------------------------------------------------
(* A claim about aggregateWeakAreas, checked under SpecAreas.              *)

\* C25: the top-level weakAreas holds at most 10 terms, no term twice, each
\* a term of some question's weakAreas; they stand in descending order of
\* their number of occurrences in the flattened per-question lists, terms of
\* equal number in the order of their first occurrence there; and when the
\* lists hold 10 or fewer distinct terms, every one of them appears.
C25_TopLevelWeakAreas ==
    areaPc = "done" =>
        LET flat == flatten(areaLists)
            r == weakAreasAgg
        IN  /\ Len(r) <= 10
            /\ \A i, j \in 1..Len(r) : i # j => r[i] # r[j]
            /\ \A i \in 1..Len(r) : \E q \in 1..Len(areaLists) : r[i] \in Range(areaLists[q])
            /\ \A i, j \in 1..Len(r) :
                i < j => \/ occurrencesOf(r[i], flat) > occurrencesOf(r[j], flat)
                         \/ /\ occurrencesOf(r[i], flat) = occurrencesOf(r[j], flat)
                            /\ firstOccurrence(r[i], flat) < firstOccurrence(r[j], flat)
            /\ Cardinality(Range(flat)) <= 10 => Range(r) = Range(flat)

\* thirteen distinct terms in three lists, two of them twice: the two come
\* first and the list is cut at ten
C25_Witness ==
    /\ areaPc = "done"
    /\ Len(areaLists) = 3
    /\ Cardinality(Range(flatten(areaLists))) = 13
    /\ weakAreasAgg = << <<"s","t","e","m","s">>, <<"o","v","a","r","y">>, <<"p","o","l","l","e","n">>, <<"r","o","o","t","s">>, <<"l","e","a","v","e","s">>,
                         <<"f","l","o","w","e","r","s">>, <<"s","e","e","d","s">>, <<"f","r","u","i","t","s">>, <<"p","e","t","a","l","s">>, <<"s","e","p","a","l">> >>

-----------------------------------------------------------------------------
(* Claims about gradeSubmission and the question ids, checked under        *)
(* SpecEvaluate.                                                           *)

\* what gradeSubmissionHeuristic returns for the segmented sheets
heuristicEvaluation ==
    evaluationOf(gradeQuestions(modelQa, studentQa, maxMarksPerQuestion, fpLow))

\* C26: with GRADER_PROVIDER = 'heuristic' gradeSubmission makes no OpenAI
\* request and returns the heuristic evaluation; otherwise a failure of the
\* OpenAI grading attempt with status 429 and code or type
\* 'insufficient_quota' makes it return the heuristic evaluation (confidence
\* 0.35) instead of an error, and every other failure is rethrown to the
\* caller; the heuristic grader runs at most once per call.
C26_ProviderAndQuotaFallback ==
    /\ heuristicRuns <= 1
    /\ graderProvider = <<"h","e","u","r","i","s","t","i","c">> =>
        /\ openaiRequests = <<>>
        /\ submitPc \in {"idle", "rejected", "segmented", "heuristic", "returned"}
        /\ submitPc = "returned" => heuristicRuns = 1 /\ evaluation = heuristicEvaluation
    /\ (caughtErr # NoError /\ submitPc \in {"returned", "thrown"}) =>
        /\ openaiRequests # <<>>
        /\ IF /\ statusOf(caughtErr) = 429
              /\ "insufficient_quota" \in {codeOf(caughtErr), typeOf(caughtErr)}
           THEN /\ submitPc = "returned"
                /\ heuristicRuns = 1
                /\ evaluation = heuristicEvaluation
                /\ evaluation.confidence = 35
           ELSE /\ submitPc = "thrown"
                /\ heuristicRuns = 0
                /\ evaluation = NoEvaluation

\* the primary model is rejected as unknown, the fallback model for want of
\* quota, and the heuristic evaluation is returned
C26_Witness ==
    /\ submitPc = "returned"
    /\ openaiRequests = <<"modelPrimary", "modelFallback">>
    /\ statusOf(caughtErr) = 429
    /\ codeOf(caughtErr) = "" /\ typeOf(caughtErr) = "insufficient_quota"
    /\ heuristicRuns = 1
    /\ evaluation.confidence = 35
    /\ evaluation.questions # <<>>

\* the question ids of a span list
idsOf(qa) == {qa[i].questionId : i \in 1..Len(qa)}

\* the only deduction of q has this reason and takes all marks
onlyDeduction(q, reason) ==
    q.deductions = <<[reason |-> [text |-> reason, cites |-> <<>>], marks |-> q.maxMarks]>>

\* C30: question ids are compared as digit strings, leading zeros included.
\* extractQaPairs keeps the markers 1 and 01 as two spans, and
\* gradeSubmissionHeuristic pairs a model span with a student span only when
\* their questionId strings are equal: there is one question per id string, a
\* question without a student span of its id string is 'Blank or unreadable
\* answer', one with an answer but without a model span of its id string is
\* 'Missing model answer', and only an id string on both sides is compared.
C30_IdsComparedAsStrings ==
    /\ (submitPc \notin {"idle", "rejected"} /\ modelText = <<"1","."," ","c","e","l","l","\n","0","1","."," ","w","a","l","l">>) =>
        /\ Len(modelQa) = 2
        /\ modelQa[1].questionId = <<"1">> /\ modelQa[2].questionId = <<"0","1">>
        /\ Number(modelQa[1].questionId) = Number(modelQa[2].questionId)
    /\ (submitPc = "returned" /\ heuristicRuns = 1) =>
        LET qs == evaluation.questions
        IN  /\ {qs[i].questionId : i \in 1..Len(qs)} = idsOf(modelQa) \cup idsOf(studentQa)
            /\ Len(qs) = Cardinality(idsOf(modelQa) \cup idsOf(studentQa))
            /\ \A i \in 1..Len(qs) :
                LET q == qs[i]
                IN  /\ q.questionId \notin idsOf(studentQa) =>
                        onlyDeduction(q, "Blank or unreadable answer")
                    /\ (q.questionId \notin idsOf(modelQa)
                            /\ answerOf(studentQa, q.questionId) # <<>>) =>
                        onlyDeduction(q, "Missing model answer")
                    /\ q.questionId \in simCalls =>
                        q.questionId \in idsOf(modelQa) \cap idsOf(studentQa)

\* the key answers question 1, the student question 01: two questions, the
\* first blank, the second without a model answer
C30_Witness ==
    /\ submitPc = "returned"
    /\ heuristicRuns = 1
    /\ idsOf(modelQa) = { <<"1">> }
    /\ idsOf(studentQa) = { <<"0","1">> }
    /\ Len(evaluation.questions) = 2
    /\ evaluation.questions[1].questionId = <<"1">>
    /\ onlyDeduction(evaluation.questions[1], "Blank or unreadable answer")
    /\ evaluation.questions[2].questionId = <<"0","1">>
    /\ onlyDeduction(evaluation.questions[2], "Missing model answer")
    /\ simCalls = {}

-----------------------------------------------------------------------------
(* Two claims about extractScoreFromText that the code does not meet.      *)

\* C27: whenever expectedOutOf is supplied and at least one valid fraction or
\* "out of" candidate has outOf equal to expectedOutOf, the returned score
\* has outOf = expectedOutOf and confidence 0.95, whatever the other
\* candidates of 1-3 digit numbers are.
C27_ExpectedTotalWins ==
    scorePc = "done" =>
        LET d == discovered(normalize(scoreText))
        IN  (scoreExpected # Undefined /\ \E i \in 1..Len(d) : d[i].outOf = scoreExpected) =>
                /\ scoreResult.outOf = scoreExpected
                /\ scoreResult.confidence = 95

\* C28: in every ExtractedScore whose obtained and outOf are both non-null,
\* 0 <= obtained <= outOf, whichever method produced it.
C28_ObtainedWithinOutOf ==
    (scorePc = "done" /\ scoreResult.obtained # Null /\ scoreResult.outOf # Null) =>
        /\ 0 <= scoreResult.obtained
        /\ scoreResult.obtained <= scoreResult.outOf

-----------------------------------------------------------------------------
(* A claim about the deductions of a question, checked under Spec.         *)

\* the marks of the deductions of q, summed
deductedMarks(q) == sumSeq([k \in 1..Len(q.deductions) |-> q.deductions[k].marks])

\* C29: for every QuestionResult of gradeSubmissionHeuristic, marksAwarded
\* plus the sum of its deductions' marks equals maxMarks, every deduction's
\* marks lies in [0, maxMarks], and there is at most one deduction.
C29_DeductionsAccountForLostMarks ==
    gradePc = "done" =>
        \A i \in 1..Len(evaluation.questions) :
            LET q == evaluation.questions[i]
            IN  /\ q.marksAwarded + deductedMarks(q) = q.maxMarks
                /\ \A k \in 1..Len(q.deductions) :
                        0 <= q.deductions[k].marks /\ q.deductions[k].marks <= q.maxMarks
                /\ Len(q.deductions) <= 1

\* a question with part of its marks beside one that lost them all
C29_Witness ==
    /\ gradePc = "done"
    /\ \E i, j \in 1..Len(evaluation.questions) :
        LET p == evaluation.questions[i]
            z == evaluation.questions[j]
        IN  /\ 0 < p.marksAwarded /\ p.marksAwarded < p.maxMarks
            /\ Len(p.deductions) = 1
            /\ p.deductions[1].marks = p.maxMarks - p.marksAwarded
            /\ z.marksAwarded = 0
            /\ Len(z.deductions) = 1
            /\ z.deductions[1].marks = z.maxMarks
=============================================================================
